---- MODULE Spec2Model ----
(***************************************************************************)
(* A model of the DeyFinder job-finder backend: the serverless library     *)
(* lib/jobFinder (src/unnamed/part_000, lines 106-834) and the jobs/search *)
(* handler that calls it (src/unnamed/part_001).                           *)
(*                                                                         *)
(* JavaScript strings are TLA+ strings; a character is a string of length  *)
(* one.  Indices follow JavaScript (0-based, -1 for "not found") in the    *)
(* operators that carry a JavaScript name.                                 *)
(***************************************************************************)
EXTENDS Integers, Sequences, FiniteSets, TLC

VARIABLES
    geminiKey,    \* GEMINI_KEY, read from the environment at module load
    cachedModel,  \* the memoised model handle of getModel
    now,          \* the value Date.now() returns
    pc,           \* where the jobs/search request stands
    body,         \* the body of the request being served
    ai,           \* what generateContent answered for this request
    response,     \* the HTTP response of the handler
    parseIn,      \* the text handed to safeJsonParse
    parseOut,     \* what safeJsonParse made of parseIn
    seeds,        \* a pair of seeds handed to selectSearchProvider
    picked,       \* the providers selected for the pair
    calls,        \* the calls of buildFallbackJobs made so far, with their results
    libCall,      \* one call of a helper of the library: function, arguments, result
    resume,       \* where the analyze-resume request stands, and its response
    engine,       \* the calls the jobs/search request has made of the synthesis engine
    slots         \* two requests served by one process at the same time

vars == <<geminiKey, cachedModel, now, pc, body, ai, response,
          parseIn, parseOut, seeds, picked, calls, libCall, resume, engine, slots>>

-----------------------------------------------------------------------------
(* Bounds of the model.                                                    *)

MaxQueries == 2   \* longest query list of a request
MaxJobs == 2      \* longest "jobs" list the AI answers with
MaxClock == 1     \* the clock takes the values 0..MaxClock
MaxSeed == 12     \* seeds range over -MaxSeed..MaxSeed and the int32 extremes
MaxIndex == 1     \* positions 0..MaxIndex of an entry in the AI's list, for helper calls

-----------------------------------------------------------------------------
(* JavaScript values that may be absent or of the wrong type.              *)

Undefined == [k |-> "undefined", s |-> ""]
Null == [k |-> "null", s |-> ""]
Str(s) == [k |-> "string", s |-> s]
Num(s) == [k |-> "number", s |-> s]
IsString(v) == v.k = "string"

-----------------------------------------------------------------------------
(* Strings.                                                                *)

AsciiLow == " !\"#$%&'()*+,-./0123456789:;<=>?@ABCDEFGHIJKLMNOPQRSTUVWXYZ[\\]^_"
AsciiHigh == "abcdefghijklmnopqrstuvwxyz{|}~"
LowerLetters == "abcdefghijklmnopqrstuvwxyz"
UpperLetters == "ABCDEFGHIJKLMNOPQRSTUVWXYZ"
Digits == "0123456789"
HexDigits == "0123456789ABCDEF"

charAt(s, i) == SubSeq(s, i + 1, i + 1)

CharsOf(s) == {SubSeq(s, i, i) : i \in 1..Len(s)}

PositionIn(table, c) == CHOOSE i \in 1..Len(table) : SubSeq(table, i, i) = c

\* String.prototype.charCodeAt for the printable ASCII characters.
CharCodeTable ==
    [c \in CharsOf(AsciiLow) \cup CharsOf(AsciiHigh) |->
        IF c \in CharsOf(AsciiLow) THEN 31 + PositionIn(AsciiLow, c)
                                   ELSE 96 + PositionIn(AsciiHigh, c)]

charCodeAt(s, i) == CharCodeTable[charAt(s, i)]

LowerTable ==
    [c \in CharsOf(AsciiLow) \cup CharsOf(AsciiHigh) |->
        IF c \in CharsOf(UpperLetters)
            THEN SubSeq(LowerLetters, PositionIn(UpperLetters, c), PositionIn(UpperLetters, c))
            ELSE c]

UpperTable ==
    [c \in CharsOf(AsciiLow) \cup CharsOf(AsciiHigh) |->
        IF c \in CharsOf(LowerLetters)
            THEN SubSeq(UpperLetters, PositionIn(LowerLetters, c), PositionIn(LowerLetters, c))
            ELSE c]

RECURSIVE MapChars(_, _)
MapChars(table, s) ==
    IF s = "" THEN "" ELSE table[Head(s)] \o MapChars(table, Tail(s))

toLowerCase(s) == MapChars(LowerTable, s)
toUpperCase(s) == MapChars(UpperTable, s)

startsWith(s, p) == Len(s) >= Len(p) /\ SubSeq(s, 1, Len(p)) = p

\* The positions (0-based) at which sub occurs in s.
Occurrences(s, sub) ==
    {i \in 0..(Len(s) - Len(sub)) : SubSeq(s, i + 1, i + Len(sub)) = sub}

includes(s, sub) == Occurrences(s, sub) # {}

Min(S) == CHOOSE m \in S : \A n \in S : m <= n
Max(S) == CHOOSE m \in S : \A n \in S : m >= n

indexOf(s, sub) == IF Occurrences(s, sub) = {} THEN -1 ELSE Min(Occurrences(s, sub))
lastIndexOf(s, sub) == IF Occurrences(s, sub) = {} THEN -1 ELSE Max(Occurrences(s, sub))

\* String.prototype.slice(from, to) for 0 <= from, to.
slice(s, from, to) == SubSeq(s, from + 1, IF to > Len(s) THEN Len(s) ELSE to)

IsSpace(c) == c = " "

RECURSIVE trimStart(_)
trimStart(s) == IF s # "" /\ IsSpace(Head(s)) THEN trimStart(Tail(s)) ELSE s

RECURSIVE trimEnd(_)
trimEnd(s) ==
    IF s # "" /\ IsSpace(SubSeq(s, Len(s), Len(s)))
        THEN trimEnd(SubSeq(s, 1, Len(s) - 1))
        ELSE s

trim(s) == trimEnd(trimStart(s))

\* The decimal numeral of a natural number, as a template literal prints it.
RECURSIVE Decimal(_)
Decimal(n) ==
    IF n < 10 THEN SubSeq(Digits, n + 1, n + 1)
              ELSE Decimal(n \div 10) \o SubSeq(Digits, (n % 10) + 1, (n % 10) + 1)

\* Array.prototype.join.
RECURSIVE join(_, _)
join(parts, sep) ==
    IF parts = <<>> THEN ""
    ELSE IF Len(parts) = 1 THEN parts[1]
    ELSE parts[1] \o sep \o join(Tail(parts), sep)

\* String.prototype.split on a set of separator characters, empty pieces dropped:
\* split(/[-_\s]+/).filter(Boolean) and split('/').filter(Boolean).
RECURSIVE SplitNonEmpty(_, _, _)
SplitNonEmpty(s, seps, cur) ==
    IF s = "" THEN (IF cur = "" THEN <<>> ELSE <<cur>>)
    ELSE IF Head(s) \in seps
        THEN (IF cur = "" THEN <<>> ELSE <<cur>>) \o SplitNonEmpty(Tail(s), seps, "")
        ELSE SplitNonEmpty(Tail(s), seps, cur \o Head(s))

\* String.prototype.split on one separator character, empty pieces kept.
RECURSIVE SplitAll(_, _, _)
SplitAll(s, sep, cur) ==
    IF s = "" THEN <<cur>>
    ELSE IF Head(s) = sep THEN <<cur>> \o SplitAll(Tail(s), sep, "")
    ELSE SplitAll(Tail(s), sep, cur \o Head(s))

IsWordChar(c) ==
    c \in CharsOf(LowerLetters) \cup CharsOf(UpperLetters) \cup CharsOf(Digits) \cup {"_"}

-----------------------------------------------------------------------------
(* 32-bit integer arithmetic.  A JavaScript int32 is kept as the integer   *)
(* it denotes, in -2^31..2^31-1; sums and shifts are computed on 16-bit    *)
(* halves so that no intermediate value leaves that range.                 *)

Half == 256 * 256

Hi16(h) == h \div Half
Lo16(h) == h % Half
Wrap16(x) == ((x + 32768) % Half) - 32768
Int32OfHalves(hi, lo) == Wrap16(hi + (lo \div Half)) * Half + (lo % Half)

\* h << 5 : the low 32 bits of h * 32, read as a signed integer.
ShiftLeft5(h) == Int32OfHalves(Hi16(h) * 32, Lo16(h) * 32)

\* (a - b + c) | 0 for int32 a, b and a character code c.
SubAddToInt32(a, b, c) == Int32OfHalves(Hi16(a) - Hi16(b), Lo16(a) - Lo16(b) + c)

\* Math.abs(x) % n.  Math.abs(-2^31) is 2^31, which is no int32, so the
\* remainder is taken without forming -x:  |x| mod n = (n - (x mod n)) mod n.
MathAbsMod(x, n) == IF x >= 0 THEN x % n ELSE (n - (x % n)) % n

MaxInt32 == 32767 * Half + 65535
MinInt32 == (-32768) * Half
IsInt32(x) == MinInt32 <= x /\ x <= MaxInt32

\* HashStep with (hash << 5) + hash in place of (hash << 5) - hash.
HashStepPlus(hash, code) ==
    Int32OfHalves(Hi16(ShiftLeft5(hash)) + Hi16(hash),
                  Lo16(ShiftLeft5(hash)) + Lo16(hash) + code)

\* One round of the loop of hashString: hash = (hash << 5) - hash + charCode,
\* then hash |= 0.
HashStep(hash, code) == SubAddToInt32(ShiftLeft5(hash), hash, code)

\* The loop of hashString from the running value hash over the rest of the
\* string.
RECURSIVE HashFrom(_, _)
HashFrom(hash, value) ==
    IF value = "" THEN hash
    ELSE LET next == HashStep(hash, CharCodeTable[Head(value)])
         IN IF IsInt32(next) THEN HashFrom(next, Tail(value)) ELSE next

hashString(value) == HashFrom(0, value)

-----------------------------------------------------------------------------
(* URLSearchParams: the application/x-www-form-urlencoded serialiser.      *)

FormSafe == CharsOf(LowerLetters) \cup CharsOf(UpperLetters) \cup CharsOf(Digits)
                \cup {"*", "-", ".", "_"}

PercentEncode(c) ==
    "%" \o SubSeq(HexDigits, (CharCodeTable[c] \div 16) + 1, (CharCodeTable[c] \div 16) + 1)
        \o SubSeq(HexDigits, (CharCodeTable[c] % 16) + 1, (CharCodeTable[c] % 16) + 1)

RECURSIVE FormEncode(_)
FormEncode(s) ==
    IF s = "" THEN ""
    ELSE (IF Head(s) \in FormSafe THEN Head(s)
          ELSE IF Head(s) = " " THEN "+"
          ELSE PercentEncode(Head(s))) \o FormEncode(Tail(s))

\* params.toString() for the list of (name, value) pairs set so far.
RECURSIVE ParamsToString(_)
ParamsToString(params) ==
    IF params = <<>> THEN ""
    ELSE FormEncode(params[1][1]) \o "=" \o FormEncode(params[1][2])
            \o (IF Len(params) > 1 THEN "&" ELSE "") \o ParamsToString(Tail(params))

\* location?.trim() as a condition: a string that is not blank.
HasLocation(location) == IsString(location) /\ trim(location.s) # ""

Truthy(list) == SelectSeq(list, LAMBDA e : e # "")

-----------------------------------------------------------------------------
(* The search providers.                                                   *)

SEARCH_PROVIDERS ==
    << [name |-> "LinkedIn search", hosts |-> <<"linkedin.com">>],
       [name |-> "JobStreet search", hosts |-> <<"jobstreet.com">>],
       [name |-> "Glassdoor search", hosts |-> <<"glassdoor.com">>],
       [name |-> "Prosple search", hosts |-> <<"prosple.com">>],
       [name |-> "Indeed search", hosts |-> <<"indeed.com">>] >>

\* company ? `${company} ${query.title}` : query.query
SearchSubject(query, company) ==
    IF company # "" THEN company \o " " \o query.title ELSE query.query

LinkedInUrl(query, company, location, remote) ==
    LET keywords == join(Truthy(<<SearchSubject(query, company),
                                  IF remote THEN "remote" ELSE "">>), " ")
        params == (IF keywords # "" THEN << <<"keywords", keywords>> >> ELSE <<>>)
               \o (IF ~remote /\ HasLocation(location)
                      THEN << <<"location", trim(location.s)>> >> ELSE <<>>)
    IN "https://www.linkedin.com/jobs/search/?" \o ParamsToString(params)

JobStreetUrl(query, company, location, remote) ==
    LET keywords == join(Truthy(<<SearchSubject(query, company),
                                  IF remote THEN "work from home" ELSE "">>), " ")
        params == (IF keywords # "" THEN << <<"keywords", keywords>> >> ELSE <<>>)
               \o << <<"page", "1">> >>
               \o (IF ~remote /\ HasLocation(location)
                      THEN << <<"locations", trim(location.s)>> >> ELSE <<>>)
    IN "https://www.jobstreet.com/search/jobs?" \o ParamsToString(params)

GlassdoorUrl(query, company, location, remote) ==
    LET keyword == join(Truthy(<<SearchSubject(query, company),
                                 IF remote THEN "remote" ELSE "">>), " ")
        params == (IF keyword # "" THEN << <<"sc.keyword", keyword>> >> ELSE <<>>)
               \o (IF ~remote /\ HasLocation(location)
                      THEN << <<"locT", "C">>, <<"locName", trim(location.s)>> >>
                      ELSE << <<"locT", "N">>, <<"locId", "1">> >>)
               \o << <<"p", "1">> >>
    IN "https://www.glassdoor.com/Job/jobs.htm?" \o ParamsToString(params)

ProspleUrl(query, company, location, remote) ==
    LET keywords == join(Truthy(<<SearchSubject(query, company)>>), " ")
        params == (IF keywords # "" THEN << <<"keywords", keywords>> >> ELSE <<>>)
               \o (IF remote THEN << <<"location", "Remote">> >>
                   ELSE IF HasLocation(location)
                      THEN << <<"location", trim(location.s)>> >> ELSE <<>>)
    IN "https://prosple.com/search-jobs?" \o ParamsToString(params)

IndeedUrl(query, company, location, remote) ==
    LET keywords == join(Truthy(<<SearchSubject(query, company),
                                  IF remote THEN "remote" ELSE "">>), " ")
        params == (IF keywords # "" THEN << <<"q", keywords>> >> ELSE <<>>)
               \o (IF ~remote /\ HasLocation(location)
                      THEN << <<"l", trim(location.s)>> >> ELSE <<>>)
    IN "https://www.indeed.com/jobs?" \o ParamsToString(params)

\* provider.buildUrl of the provider at (0-based) position index.
buildUrl(index, query, company, location, remote) ==
    CASE index = 0 -> LinkedInUrl(query, company, location, remote)
      [] index = 1 -> JobStreetUrl(query, company, location, remote)
      [] index = 2 -> GlassdoorUrl(query, company, location, remote)
      [] index = 3 -> ProspleUrl(query, company, location, remote)
      [] index = 4 -> IndeedUrl(query, company, location, remote)

ProviderCount == Len(SEARCH_PROVIDERS)

AGGREGATOR_HOSTS == UNION {{p.hosts[i] : i \in 1..Len(p.hosts)} :
                              p \in {SEARCH_PROVIDERS[j] : j \in 1..ProviderCount}}

\* The (0-based) position of the first provider one of whose hosts occurs in
\* the host name, or -1 (Array.prototype.find answering undefined).
findProviderForHost(hostname) ==
    LET lowerHost == toLowerCase(hostname)
        hits == {j \in 0..(ProviderCount - 1) :
                    \E i \in 1..Len(SEARCH_PROVIDERS[j + 1].hosts) :
                        includes(lowerHost, SEARCH_PROVIDERS[j + 1].hosts[i])}
    IN IF hits = {} THEN -1 ELSE Min(hits)

\* The (0-based) position selectSearchProvider returns the provider of.
\* selectSearchProvider with the mathematical modulo in place of
\* Math.abs(indexSeed) % length.
selectSearchProviderModulo(indexSeed) == indexSeed % ProviderCount

\* selectSearchProvider with indexSeed % length: the remainder keeps the sign
\* of the seed.
selectSearchProviderSigned(indexSeed) ==
    IF indexSeed >= 0 THEN indexSeed % ProviderCount
    ELSE -((ProviderCount - (indexSeed % ProviderCount)) % ProviderCount)

selectSearchProvider(indexSeed) == MathAbsMod(indexSeed, ProviderCount)

buildSearchLink(query, company, location, remote, seed) ==
    LET provider == selectSearchProvider(seed)
    IN [url |-> buildUrl(provider, query, company, location, remote),
        source |-> SEARCH_PROVIDERS[provider + 1].name]

-----------------------------------------------------------------------------
(* Company names.                                                          *)

capitalise(segment) == toUpperCase(charAt(segment, 0)) \o SubSeq(segment, 2, Len(segment))

MapSeq(F(_), list) == [i \in 1..Len(list) |-> F(list[i])]

toTitleCase(slug) == join(MapSeq(capitalise, SplitNonEmpty(slug, {"-", "_", " "}, "")), " ")

RECURSIVE KeepChars(_, _)
KeepChars(s, keep) ==
    IF s = "" THEN ""
    ELSE (IF Head(s) \in keep THEN Head(s) ELSE "") \o KeepChars(Tail(s), keep)

\* value.toLowerCase().replace(/[^a-z0-9]+/g, '')
slugify(value) == KeepChars(toLowerCase(value), CharsOf(LowerLetters) \cup CharsOf(Digits))

GenericPhrases ==
    { "various companies", "various employers", "multiple companies",
      "multiple employers", "several companies", "several employers",
      "numerous companies", "numerous employers", "diverse companies",
      "diverse employers", "leading company", "leading employer",
      "top company", "top employer", "major company", "major employer",
      "global company", "global employer", "confidential company",
      "confidential employer", "stealth company", "stealth employer" }

PlaceholderWords ==
    { "n/a", "na", "tbd", "tba", "unknown", "unspecified", "not provided", "not specified" }

GenericNouns == { "company", "employer", "organisation", "organization" }

\* \b at offset i of s (between the characters i-1 and i, 0-based).
WordBoundary(s, i) ==
    (i > 0 /\ IsWordChar(charAt(s, i - 1))) # (i < Len(s) /\ IsWordChar(charAt(s, i)))

\* /\b(w1|w2|...)\b/.test(s)
MatchesWholeWord(s, words) ==
    \E w \in words : \E i \in Occurrences(s, w) :
        WordBoundary(s, i) /\ WordBoundary(s, i + Len(w))

\* isGenericCompanyName without the conversion to lower case.
isGenericCompanyNameCaseSensitive(name) ==
    LET normalised == trim(name)
    IN \/ normalised = ""
       \/ Len(normalised) <= 2
       \/ \E phrase \in GenericPhrases : includes(normalised, phrase)
       \/ MatchesWholeWord(normalised, PlaceholderWords)
       \/ normalised \in GenericNouns

isGenericCompanyName(name) ==
    LET normalised == toLowerCase(trim(name))
    IN \/ normalised = ""
       \/ Len(normalised) <= 2
       \/ \E phrase \in GenericPhrases : includes(normalised, phrase)
       \/ MatchesWholeWord(normalised, PlaceholderWords)
       \/ normalised \in GenericNouns

-----------------------------------------------------------------------------
(* new URL(link), for the links the model supplies: "http://" or           *)
(* "https://" followed by a host and optionally a path and a query, and    *)
(* strings with no scheme at all, which the constructor rejects.  The host *)
(* ends at the first "/", "?" or "#"; an empty host and a host with a      *)
(* forbidden character are rejected.                                       *)

ForbiddenHostChars == {" ", "<", ">", "[", "]", "^", "|", "%", "\\", "@", ":"}

SchemeOf(link) ==
    IF startsWith(toLowerCase(link), "https://") THEN "https://"
    ELSE IF startsWith(toLowerCase(link), "http://") THEN "http://"
    ELSE ""

\* The offset of the first of the characters of stops in s, or Len(s).
FirstOf(s, stops) ==
    LET hits == {i \in 0..(Len(s) - 1) : charAt(s, i) \in stops}
    IN IF hits = {} THEN Len(s) ELSE Min(hits)

\* The URL of a link with its scheme known: host name and path.
ParseAfterScheme(scheme, rest, hostEnd) ==
    IF scheme = "" \/ hostEnd = 0
          \/ CharsOf(slice(rest, 0, hostEnd)) \cap ForbiddenHostChars # {}
       THEN [ok |-> FALSE, hostname |-> "", pathname |-> ""]
       ELSE [ok |-> TRUE, hostname |-> toLowerCase(slice(rest, 0, hostEnd)),
             pathname |-> IF FirstOf(rest, {"?", "#"}) = hostEnd THEN "/"
                          ELSE slice(rest, hostEnd, FirstOf(rest, {"?", "#"}))]

ParseWithScheme(link, scheme) ==
    ParseAfterScheme(scheme, SubSeq(link, Len(scheme) + 1, Len(link)),
                     FirstOf(SubSeq(link, Len(scheme) + 1, Len(link)), {"/", "?", "#"}))

ParseURL(link) == ParseWithScheme(link, SchemeOf(link))

-----------------------------------------------------------------------------
(* deriveCompanyFromLink.  The empty string stands for undefined: the      *)
(* caller only tests the result for truthiness.                            *)

\* FirstSegmentTitle without toTitleCase.
FirstSegmentAsIs(pathSegments) ==
    IF pathSegments # <<>> THEN pathSegments[1] ELSE ""

FirstSegmentTitle(pathSegments) ==
    IF pathSegments # <<>> THEN toTitleCase(pathSegments[1]) ELSE ""

BlockedRoots ==
    { "greenhouse", "lever", "ashbyhq", "wellfound", "linkedin", "indeed",
      "ziprecruiter", "glassdoor", "workable", "smartrecruiters", "jobvite",
      "myworkdayjobs", "jobs" }

RootTitle(domainRoot) ==
    IF domainRoot \in BlockedRoots THEN ""
    ELSE IF domainRoot # "" THEN toTitleCase(domainRoot) ELSE ""

RootOfParts(hostParts) ==
    RootTitle(IF Len(hostParts) > 2 THEN hostParts[Len(hostParts) - 1] ELSE hostParts[1])

\* The last steps of deriveCompanyFromLink: the root label of the host.
DomainRootTitle(host) ==
    RootOfParts(SplitAll(IF startsWith(host, "www.") THEN SubSeq(host, 5, Len(host)) ELSE host,
                         ".", ""))

\* deriveCompanyFromLink once the link is parsed: host is url.hostname in
\* lower case, pathSegments the non-empty segments of url.pathname.
DeriveFromHostAndPath(host, pathSegments, subdomain, companyIndexes) ==
    IF includes(host, "greenhouse.io") THEN FirstSegmentTitle(pathSegments)
    ELSE IF includes(host, "lever.co") THEN FirstSegmentTitle(pathSegments)
    ELSE IF includes(host, "ashbyhq.com") THEN FirstSegmentTitle(pathSegments)
    ELSE IF /\ includes(host, "workable.com")
            /\ subdomain # "" /\ subdomain # "www" /\ subdomain # "jobs"
         THEN toTitleCase(subdomain)
    ELSE IF includes(host, "smartrecruiters.com") THEN FirstSegmentTitle(pathSegments)
    ELSE IF includes(host, "jobvite.com") THEN FirstSegmentTitle(pathSegments)
    ELSE IF /\ includes(host, "wellfound.com")
            /\ companyIndexes # {}
            /\ Min(companyIndexes) < Len(pathSegments)
         THEN toTitleCase(pathSegments[Min(companyIndexes) + 1])
    ELSE IF includes(host, "myworkdayjobs.com") /\ pathSegments # <<>>
         THEN toTitleCase(pathSegments[1])
    ELSE IF \/ \E aggregatorHost \in AGGREGATOR_HOSTS : includes(host, aggregatorHost)
            \/ includes(host, "ziprecruiter.com")
         THEN ""
    ELSE DomainRootTitle(host)

DeriveFromSegments(host, pathSegments) ==
    DeriveFromHostAndPath(host, pathSegments, SplitAll(host, ".", "")[1],
                          {i \in 1..Len(pathSegments) : pathSegments[i] = "company"})

\* new URL(link) throwing is caught: undefined.
DeriveFromURL(url) ==
    IF ~url.ok THEN ""
    ELSE DeriveFromSegments(url.hostname, SplitNonEmpty(url.pathname, {"/"}, ""))

deriveCompanyFromLink(link) == DeriveFromURL(ParseURL(link))

-----------------------------------------------------------------------------
(* Sample companies.                                                       *)

COMPANY_BUCKETS ==
    << [keywords |-> <<"data", "analytics", "machine learning", "ml", "ai", "scientist">>,
        companies |-> <<"Snowflake", "Databricks", "Palantir", "Anthropic", "Airbnb">>],
       [keywords |-> <<"frontend", "javascript", "typescript", "react", "ui", "web">>,
        companies |-> <<"Vercel", "Netlify", "Canva", "Shopify", "Pinterest">>],
       [keywords |-> <<"backend", "api", "server", "distributed", "platform">>,
        companies |-> <<"Cloudflare", "HashiCorp", "Twilio", "DigitalOcean", "MongoDB">>],
       [keywords |-> <<"devops", "infrastructure", "sre", "platform engineering", "observability">>,
        companies |-> <<"Datadog", "PagerDuty", "GitHub", "GitLab", "New Relic">>],
       [keywords |-> <<"mobile", "android", "ios", "swift", "kotlin">>,
        companies |-> <<"Spotify", "Duolingo", "Lyft", "Uber", "Headspace">>],
       [keywords |-> <<"security", "infosec", "appsec", "threat", "soc", "zero trust">>,
        companies |-> <<"Okta", "CrowdStrike", "Snyk", "Cloudflare", "1Password">>],
       [keywords |-> <<"product manager", "product management", "pm">>,
        companies |-> <<"Atlassian", "Notion", "Asana", "Monday.com", "Linear">>],
       [keywords |-> <<"designer", "design", "ux", "ui", "product design">>,
        companies |-> <<"Figma", "Adobe", "Canva", "IDEO", "InVision">>],
       [keywords |-> <<"marketing", "growth", "content", "brand", "demand">>,
        companies |-> <<"HubSpot", "Klaviyo", "Mailchimp", "Sprout Social", "Canva">>],
       [keywords |-> <<"sales", "account executive", "account manager", "business development">>,
        companies |-> <<"Salesforce", "Gong", "Outreach", "HubSpot", "Zendesk">>],
       [keywords |-> <<"finance", "fintech", "bank", "financial">>,
        companies |-> <<"Stripe", "Plaid", "Square", "Chime", "Robinhood">>],
       [keywords |-> <<"health", "healthcare", "medtech", "clinical", "pharma">>,
        companies |-> <<"Teladoc", "Walgreens Health", "Johnson & Johnson", "Moderna", "One Medical">>],
       [keywords |-> <<"education", "edtech", "teacher", "learning">>,
        companies |-> <<"Duolingo", "Coursera", "Khan Academy", "Udemy", "Outschool">>],
       [keywords |-> <<"gaming", "game", "unity", "unreal">>,
        companies |-> <<"Riot Games", "Epic Games", "Blizzard Entertainment", "Ubisoft", "Supercell">>] >>

DEFAULT_COMPANIES ==
    <<"Stripe", "Canva", "Atlassian", "HubSpot", "GitLab", "Notion", "Figma",
      "Twilio", "Airbnb", "Spotify">>

\* The company list pickSampleCompany samples for a haystack: that of the
\* first bucket with a keyword in it, else the default list.
SampleListFor(haystack) ==
    LET hits == {b \in 1..Len(COMPANY_BUCKETS) :
                    \E k \in 1..Len(COMPANY_BUCKETS[b].keywords) :
                        includes(haystack, COMPANY_BUCKETS[b].keywords[k])}
    IN IF hits = {} THEN DEFAULT_COMPANIES ELSE COMPANY_BUCKETS[Min(hits)].companies

\* SamplePosition without Math.abs: the mathematical (hash + index) mod length.
SamplePositionSigned(hash, index, length) == ((hash % length) + (index % length)) % length

\* (Math.abs(hash) + index) % length.  The sum can pass 2^31 (JavaScript adds
\* doubles), so it is reduced before it is formed.
SamplePosition(hash, index, length) == (MathAbsMod(hash, length) + (index % length)) % length

SampleFrom(list, hash, index) == list[SamplePosition(hash, index, Len(list)) + 1]

SampleForHaystack(haystack, index) ==
    SampleFrom(SampleListFor(haystack), hashString(haystack), index)

pickSampleCompany(query, index) ==
    SampleForHaystack(toLowerCase(query.title \o " " \o query.query), index)

\* NormaliseFrom that prefers the name derived from the link.
NormaliseFromLinkFirst(trimmed, derived, query, index) ==
    IF derived # "" THEN derived
    ELSE IF trimmed # "" /\ ~isGenericCompanyName(trimmed) THEN trimmed
    ELSE pickSampleCompany(query, index)

NormaliseFrom(trimmed, derived, query, index) ==
    IF trimmed # "" /\ ~isGenericCompanyName(trimmed) THEN trimmed
    ELSE IF derived # "" THEN derived
    ELSE pickSampleCompany(query, index)

\* rawCompany is a string or null; the link is a string.
normaliseCompanyName(rawCompany, link, query, index) ==
    NormaliseFrom(IF IsString(rawCompany) THEN trim(rawCompany.s) ELSE "",
                  deriveCompanyFromLink(link), query, index)

-----------------------------------------------------------------------------
(* Links.                                                                  *)

\* modelSource ?? fallback
OrElse(modelSource, fallback) == IF IsString(modelSource) THEN modelSource.s ELSE fallback

\* RepairLink that answers a provider link without the company slug with the
\* hash-selected fallback link instead of the matched provider's.
RepairLinkHashed(rawLink, company, fallbackQuery, location, remote, modelSource, fallbackLink, provider, linkIncludesCompany) ==
    IF provider # -1
       THEN (IF linkIncludesCompany
               THEN [url |-> rawLink,
                     source |-> OrElse(modelSource, SEARCH_PROVIDERS[provider + 1].name)]
               ELSE fallbackLink)
    ELSE IF linkIncludesCompany
       THEN [url |-> rawLink, source |-> OrElse(modelSource, "AI curated")]
    ELSE [url |-> rawLink, source |-> OrElse(modelSource, fallbackLink.source)]

\* The try block of ensureCompanyLink, for a link that parses: provider is
\* the position of the provider found for the host, or -1.
RepairLink(rawLink, company, fallbackQuery, location, remote, modelSource, fallbackLink, provider, linkIncludesCompany) ==
    IF company = ""
       THEN [url |-> rawLink,
             source |-> OrElse(modelSource,
                               IF provider # -1 THEN SEARCH_PROVIDERS[provider + 1].name
                                                ELSE fallbackLink.source)]
    ELSE IF provider # -1
       THEN (IF linkIncludesCompany
               THEN [url |-> rawLink,
                     source |-> OrElse(modelSource, SEARCH_PROVIDERS[provider + 1].name)]
               ELSE [url |-> buildUrl(provider, fallbackQuery, company, location, remote),
                     source |-> SEARCH_PROVIDERS[provider + 1].name])
    ELSE IF linkIncludesCompany
       THEN [url |-> rawLink, source |-> OrElse(modelSource, "AI curated")]
    ELSE [url |-> rawLink, source |-> OrElse(modelSource, fallbackLink.source)]

LinkIncludesCompany(rawLink, companySlug) ==
    IF companySlug # "" THEN includes(toLowerCase(rawLink), companySlug) ELSE FALSE

\* EnsureWith without the test that the raw link starts with "https://".
EnsureWithAnyScheme(rawLink, company, fallbackQuery, location, remote, modelSource, fallbackLink, parsed) ==
    IF ~IsString(rawLink) \/ rawLink.s = "" THEN fallbackLink
    ELSE IF ~parsed.ok THEN fallbackLink
    ELSE RepairLink(rawLink.s, company, fallbackQuery, location, remote, modelSource,
                    fallbackLink, findProviderForHost(parsed.hostname),
                    LinkIncludesCompany(rawLink.s, slugify(company)))

EnsureWith(rawLink, company, fallbackQuery, location, remote, modelSource, fallbackLink, parsed) ==
    IF ~IsString(rawLink) \/ rawLink.s = "" \/ ~startsWith(rawLink.s, "https://")
       THEN fallbackLink
    ELSE IF ~parsed.ok THEN fallbackLink
    ELSE RepairLink(rawLink.s, company, fallbackQuery, location, remote, modelSource,
                    fallbackLink, findProviderForHost(parsed.hostname),
                    LinkIncludesCompany(rawLink.s, slugify(company)))

\* ensureCompanyLink with a seed that leaves the index out.
ensureCompanyLinkSameSeed(rawLink, company, fallbackQuery, location, remote, index, modelSource) ==
    EnsureWith(rawLink, company, fallbackQuery, location, remote, modelSource,
               buildSearchLink(fallbackQuery, company, location, remote,
                   hashString(fallbackQuery.title \o ":" \o fallbackQuery.query)),
               ParseURL(rawLink.s))

\* rawLink is a string or null, modelSource a string or undefined.
ensureCompanyLink(rawLink, company, fallbackQuery, location, remote, index, modelSource) ==
    EnsureWith(rawLink, company, fallbackQuery, location, remote, modelSource,
               buildSearchLink(fallbackQuery, company, location, remote,
                   hashString(fallbackQuery.title \o ":" \o fallbackQuery.query
                                 \o ":" \o Decimal(index))),
               ParseURL(rawLink.s))

-----------------------------------------------------------------------------
(* Postings.                                                               *)

Posting(id, title, company, location, salary, description, url, source) ==
    [id |-> id, title |-> title, company |-> company, location |-> location,
     salary |-> salary, description |-> description, url |-> url, source |-> source,
     postedAt |-> Undefined]

\* Array.prototype.flatMap over a list of lists.
RECURSIVE Flatten(_)
Flatten(lists) == IF lists = <<>> THEN <<>> ELSE Head(lists) \o Flatten(Tail(lists))

\* Math.max(SEARCH_PROVIDERS.length, 5)
ResultsPerQuery == IF ProviderCount > 5 THEN ProviderCount ELSE 5

\* remote ? 'Remote' : location || 'Flexible location'
LocationLabel(location, remote) ==
    IF remote THEN "Remote"
    ELSE IF IsString(location) /\ location.s # "" THEN location.s
    ELSE "Flexible location"

\* FallbackRecord with the time of the call written into the description.
FallbackRecordStamped(query, queryIndex, offset, location, remote, clock, company, provider, locationLabel) ==
    Posting("fallback-" \o Decimal(queryIndex) \o "-" \o Decimal(offset)
                \o "-" \o Decimal(clock),
            query.title \o " at " \o company,
            company,
            Str(locationLabel),
            Undefined,
            "Browse " \o company \o " as of " \o Decimal(clock) \o ".",
            buildUrl(provider, query, company, location, remote),
            SEARCH_PROVIDERS[provider + 1].name)

FallbackRecord(query, queryIndex, offset, location, remote, clock, company, provider, locationLabel) ==
    Posting("fallback-" \o Decimal(queryIndex) \o "-" \o Decimal(offset)
                \o "-" \o Decimal(clock),
            query.title \o " at " \o company,
            company,
            Str(locationLabel),
            Undefined,
            "Browse " \o company \o " and peer organisations hiring for "
                \o query.title \o ". This search stays focused on "
                \o (IF remote THEN "remote-first" ELSE locationLabel) \o " roles.",
            buildUrl(provider, query, company, location, remote),
            SEARCH_PROVIDERS[provider + 1].name)

\* FallbackPosting with a provider seed that leaves the offset out.
FallbackPostingOneSeed(query, queryIndex, offset, location, remote, clock) ==
    FallbackRecord(query, queryIndex, offset, location, remote, clock,
                   pickSampleCompany(query, queryIndex + offset),
                   MathAbsMod(hashString(query.title \o ":" \o query.query \o ":"
                                            \o Decimal(queryIndex)),
                              ProviderCount),
                   LocationLabel(location, remote))

\* The posting buildFallbackJobs makes for a query at an offset.
FallbackPosting(query, queryIndex, offset, location, remote, clock) ==
    FallbackRecord(query, queryIndex, offset, location, remote, clock,
                   pickSampleCompany(query, queryIndex + offset),
                   MathAbsMod(hashString(query.title \o ":" \o query.query \o ":"
                                            \o Decimal(queryIndex) \o ":" \o Decimal(offset)),
                              ProviderCount),
                   LocationLabel(location, remote))

\* buildFallbackJobs with one posting too few for each query.
buildFallbackJobsShort(queries, location, remote, clock) ==
    Flatten([queryIndex \in 1..Len(queries) |->
                [offset \in 1..(ResultsPerQuery - 1) |->
                    FallbackPosting(queries[queryIndex], queryIndex - 1, offset - 1,
                                    location, remote, clock)]])

\* clock is the value of Date.now() when the function is entered.
buildFallbackJobs(queries, location, remote, clock) ==
    Flatten([queryIndex \in 1..Len(queries) |->
                [offset \in 1..ResultsPerQuery |->
                    FallbackPosting(queries[queryIndex], queryIndex - 1, offset - 1,
                                    location, remote, clock)]])

-----------------------------------------------------------------------------
(* JSON.  A document is a record of the members the program reads:         *)
(*   a    - an unrelated member (undefined when absent),                   *)
(*   jobs - absent, a number, or an array of entries,                      *)
(*   summary, keywords, strengths, nextSteps, jobQueries - the members of  *)
(*          an analysis (undefined when absent).                           *)
(* An entry is an object with the members of a posting (each a string, a   *)
(* number, null, or undefined when absent) or the value null.  Strings in  *)
(* documents hold no quote and no backslash, so no escapes are written.    *)

JobEntry(id, title, company, location, description, link, source) ==
    [k |-> "object", id |-> id, title |-> title, company |-> company,
     location |-> location, salary |-> Undefined, description |-> description,
     link |-> link, source |-> source]

NullEntry ==
    [k |-> "null", id |-> Undefined, title |-> Undefined, company |-> Undefined,
     location |-> Undefined, salary |-> Undefined, description |-> Undefined,
     link |-> Undefined, source |-> Undefined]

NoJobs == [k |-> "undefined", items |-> <<>>]
JobsNumber == [k |-> "number", items |-> <<>>]
JobsArray(items) == [k |-> "array", items |-> items]

\* An array of strings or of job queries, as a member's value.
List(items) == [k |-> "array", s |-> "", items |-> items]

QueryItem(title, query) == [k |-> "object", title |-> title, query |-> query]

AnalysisDoc(summary, keywords, strengths, nextSteps, jobQueries) ==
    [a |-> Undefined, jobs |-> NoJobs, summary |-> summary, keywords |-> keywords,
     strengths |-> strengths, nextSteps |-> nextSteps, jobQueries |-> jobQueries]

Doc(a, jobs) ==
    [a |-> a, jobs |-> jobs, summary |-> Undefined, keywords |-> Undefined,
     strengths |-> Undefined, nextSteps |-> Undefined, jobQueries |-> Undefined]

ItemText(e) ==
    IF e.k = "object"
       THEN "{\"title\":\"" \o e.title \o "\",\"query\":\"" \o e.query \o "\"}"
    ELSE "\"" \o e.s \o "\""

ScalarText(v) ==
    CASE v.k = "string" -> "\"" \o v.s \o "\""
      [] v.k = "number" -> v.s
      [] v.k = "null" -> "null"
      [] v.k = "array" -> "[" \o join(MapSeq(ItemText, v.items), ",") \o "]"

MemberText(name, v) ==
    IF v.k = "undefined" THEN "" ELSE "\"" \o name \o "\":" \o ScalarText(v)

EntryText(e) ==
    IF e.k = "null" THEN "null"
    ELSE "{" \o join(Truthy(<<MemberText("id", e.id), MemberText("title", e.title),
                              MemberText("company", e.company),
                              MemberText("location", e.location),
                              MemberText("salary", e.salary),
                              MemberText("description", e.description),
                              MemberText("link", e.link),
                              MemberText("source", e.source)>>), ",") \o "}"

JobsText(jobs) ==
    CASE jobs.k = "undefined" -> ""
      [] jobs.k = "number" -> "\"jobs\":3"
      [] jobs.k = "array" -> "\"jobs\":[" \o join(MapSeq(EntryText, jobs.items), ",") \o "]"

\* JSON.stringify of a document, minified.
JSONstringify(doc) ==
    "{" \o join(Truthy(<<MemberText("a", doc.a), JobsText(doc.jobs),
                              MemberText("summary", doc.summary),
                              MemberText("keywords", doc.keywords),
                              MemberText("strengths", doc.strengths),
                              MemberText("nextSteps", doc.nextSteps),
                              MemberText("jobQueries", doc.jobQueries)>>), ",") \o "}"

\* The entries the AI answers with.
Entries ==
    { JobEntry(Undefined, Str("SRE"), Str("Acme"), Str("Lisbon"), Str("Run it."),
               Str("https://careers.acme.com/jobs/1"), Str("Acme careers")),
      JobEntry(Undefined, Str("SRE"), Undefined, Undefined, Undefined,
               Str("https://boards.greenhouse.io/acme/jobs/123"), Undefined),
      JobEntry(Str("1"), Undefined, Str("Various companies"), Str(" "), Undefined,
               Str("http://example.com/x"), Str("Gemini pick")),
      JobEntry(Undefined, Undefined, Undefined, Undefined, Undefined, Undefined, Undefined),
      JobEntry(Str("1"), Str("Designer"), Str(" Canva "), Undefined, Undefined,
               Num("7"), Str("")),
      JobEntry(Str(""), Str("Cook"), Str("N/A"), Undefined, Undefined,
               Str("https://"), Undefined),
      JobEntry(Undefined, Str("Designer"), Str("Canva"), Undefined, Undefined,
               Str("https://www.linkedin.com/jobs/search/?keywords=canva"), Undefined),
      JobEntry(Undefined, Str("Designer"), Str("Canva"), Undefined, Undefined,
               Str("https://www.indeed.com/jobs?q=designer"), Str("Indeed")),
      JobEntry(Undefined, Str("Cook"), Undefined, Undefined, Undefined,
               Str("https://company.com/careers"), Undefined),
      NullEntry }

RECURSIVE SeqsUpTo(_, _)
SeqsUpTo(S, n) ==
    IF n = 0 THEN {<<>>}
    ELSE LET shorter == SeqsUpTo(S, n - 1)
         IN shorter \cup {Append(q, e) : q \in {r \in shorter : Len(r) = n - 1}, e \in S}

\* Every document JSON.parse is asked about.
JsonUniverse ==
    {Doc(Undefined, NoJobs), Doc(Num("1"), NoJobs), Doc(Undefined, JobsNumber),
     Doc(Num("1"), JobsArray(<<>>))}
        \cup {Doc(Undefined, JobsArray(items)) : items \in SeqsUpTo(Entries, MaxJobs)}

\* The analyses the AI answers with: every member absent, of a wrong type,
\* or as the prompt asks for it.
AnalysisDocs ==
    {AnalysisDoc(summary, keywords, strengths, nextSteps, jobQueries) :
        summary \in {Undefined, Null, Num("7"), Str("Senior SRE with a platform focus.")},
        keywords \in {Undefined, Str("sre, kubernetes"),
                      List(<<Str("sre"), Str("kubernetes")>>)},
        strengths \in {Undefined, Null, List(<<Str("Leads incident response")>>)},
        nextSteps \in {Undefined, Num("3"), List(<<>>)},
        jobQueries \in {Undefined, Str("none"),
                        List(<<QueryItem("Senior SRE", "senior sre kubernetes")>>)}}

AllDocs == JsonUniverse \cup AnalysisDocs

\* JSON.parse as the inverse of JSON.stringify on AllDocs; any other text the
\* model hands it is no JSON text at all.
DocTexts == [d \in AllDocs |-> JSONstringify(d)]

ParseTable ==
    [text \in {DocTexts[d] : d \in AllDocs} |-> CHOOSE d \in AllDocs : DocTexts[d] = text]

NoDoc == Doc(Undefined, NoJobs)

JSONparse(text) ==
    IF text \in DOMAIN ParseTable THEN [ok |-> TRUE, value |-> ParseTable[text]]
                                  ELSE [ok |-> FALSE, value |-> NoDoc]

ParseSlice(parsed) ==
    IF ~parsed.ok THEN [ok |-> FALSE, error |-> "SyntaxError", value |-> NoDoc]
    ELSE [ok |-> TRUE, error |-> "", value |-> parsed.value]

\* LocateAndParse with the closing brace left out of the slice.
LocateAndParseExclusive(text, firstBrace, lastBrace) ==
    IF firstBrace = -1 \/ lastBrace = -1 \/ lastBrace <= firstBrace
       THEN [ok |-> FALSE, error |-> "Unable to locate JSON block in Gemini response.",
             value |-> NoDoc]
    ELSE ParseSlice(JSONparse(slice(text, firstBrace, lastBrace)))

LocateAndParse(text, firstBrace, lastBrace) ==
    IF firstBrace = -1 \/ lastBrace = -1 \/ lastBrace <= firstBrace
       THEN [ok |-> FALSE, error |-> "Unable to locate JSON block in Gemini response.",
             value |-> NoDoc]
    ELSE ParseSlice(JSONparse(slice(text, firstBrace, lastBrace + 1)))

\* safeJsonParse of the text of a response (a string, or undefined): ok with
\* the parsed value, or the error thrown.
safeJsonParse(text) ==
    IF ~IsString(text) \/ text.s = ""
       THEN [ok |-> FALSE, error |-> "Empty response from Gemini.", value |-> NoDoc]
    ELSE LocateAndParse(text.s, indexOf(text.s, "{"), lastIndexOf(text.s, "}"))

-----------------------------------------------------------------------------
(* generateJobsWithGemini.                                                 *)

\* source.replace(/gemini/gi, 'AI curated')
RECURSIVE ReplaceGemini(_)
ReplaceGemini(source) ==
    IF Len(source) < 6 THEN source
    ELSE IF toLowerCase(SubSeq(source, 1, 6)) = "gemini"
        THEN "AI curated" \o ReplaceGemini(SubSeq(source, 7, Len(source)))
        ELSE Head(source) \o ReplaceGemini(Tail(source))

\* typeof v === 'string' && v ? v : fallback
StringOr(v, fallback) == IF IsString(v) /\ v.s # "" THEN v.s ELSE fallback

\* derivedLocation of an entry.
DerivedLocation(job, location, remote) ==
    IF IsString(job.location) /\ trim(job.location.s) # "" THEN job.location
    ELSE IF remote THEN Str("Remote")
    ELSE IF IsString(location) THEN location ELSE Undefined

\* The object the map callback returns, given company and { url, source }.
AssemblePosting(job, index, fallbackQuery, location, remote, clock, company, link) ==
    Posting(StringOr(job.id, "gemini-" \o Decimal(clock) \o "-" \o Decimal(index)),
            StringOr(job.title, fallbackQuery.title),
            company,
            DerivedLocation(job, location, remote),
            IF IsString(job.salary) THEN job.salary ELSE Undefined,
            StringOr(job.description,
                     "Review opportunities that align with " \o fallbackQuery.title \o "."),
            link.url,
            IF link.source # "" THEN ReplaceGemini(link.source) ELSE "AI curated")

PostingWithCompany(job, index, fallbackQuery, location, remote, clock, rawLink, company) ==
    AssemblePosting(job, index, fallbackQuery, location, remote, clock, company,
                    ensureCompanyLink(rawLink, company, fallbackQuery, location, remote, index,
                                      IF IsString(job.source) THEN job.source ELSE Undefined))

PostingForQuery(job, index, fallbackQuery, location, remote, clock, rawLink) ==
    PostingWithCompany(job, index, fallbackQuery, location, remote, clock, rawLink,
                       normaliseCompanyName(IF IsString(job.company) THEN job.company ELSE Null,
                                            rawLink.s, fallbackQuery, index))

\* AIPosting that pairs every entry with the first query.
AIPostingFirstQuery(job, index, queries, location, remote, clock) ==
    PostingForQuery(job, index, queries[1], location, remote, clock,
                    IF IsString(job.link) THEN job.link ELSE Null)

\* The posting made of the AI's entry at (0-based) position index.
AIPosting(job, index, queries, location, remote, clock) ==
    PostingForQuery(job, index, queries[(index % Len(queries)) + 1], location, remote, clock,
                    IF IsString(job.link) THEN job.link ELSE Null)

\* What generateContent did: it rejected, or it resolved with a response
\* whose text() is a string or undefined.
Rejected == [kind |-> "rejected", text |-> Undefined]
Resolved(text) == [kind |-> "resolved", text |-> text]

\* JobsFromParsed without the fallback for an empty or missing 'jobs' list.
JobsFromParsedNoFallback(outcome, parsed, jobs, queries, location, remote, clock) ==
    IF outcome.kind = "rejected" \/ ~parsed.ok
       THEN buildFallbackJobs(queries, location, remote, clock)
    ELSE IF \E i \in 1..Len(jobs) : jobs[i].k = "null"
       THEN buildFallbackJobs(queries, location, remote, clock)
    ELSE SelectSeq([i \in 1..Len(jobs) |->
                       AIPosting(jobs[i], i - 1, queries, location, remote, clock)],
                   LAMBDA job : job.url # "")

\* The try block once the text is parsed, and its catch.  Reading a member
\* of a null entry throws a TypeError inside the map.
JobsFromParsed(outcome, parsed, jobs, queries, location, remote, clock) ==
    IF outcome.kind = "rejected" \/ ~parsed.ok
       THEN buildFallbackJobs(queries, location, remote, clock)
    ELSE IF jobs = <<>>
       THEN buildFallbackJobs(queries, location, remote, clock)
    ELSE IF \E i \in 1..Len(jobs) : jobs[i].k = "null"
       THEN buildFallbackJobs(queries, location, remote, clock)
    ELSE SelectSeq([i \in 1..Len(jobs) |->
                       AIPosting(jobs[i], i - 1, queries, location, remote, clock)],
                   LAMBDA job : job.url # "")

JobsOfParsed(outcome, parsed, queries, location, remote, clock) ==
    JobsFromParsed(outcome, parsed,
                   IF parsed.value.jobs.k = "array" THEN parsed.value.jobs.items ELSE <<>>,
                   queries, location, remote, clock)

\* The body of the try block after the await, and its catch: the value
\* generateJobsWithGemini resolves with.
JobsAfterAwait(outcome, queries, location, remote, clock) ==
    JobsOfParsed(outcome, safeJsonParse(outcome.text), queries, location, remote, clock)

-----------------------------------------------------------------------------
(* The inputs.                                                             *)

JobQuery(title, query) == [title |-> title, query |-> query]

\* One query per sampling case: a bucket early in the table, a later bucket
\* (negative hash), and no bucket at all.
QueryPool ==
    { JobQuery("Backend Engineer", "backend engineer node"),
      JobQuery("SRE", "sre"),
      JobQuery("Chef", "chef") }

\* An entry of the request's list that the handler filters out.
BlankQuery == JobQuery("", "chef")

Preferences ==
    { [location |-> Undefined, remote |-> FALSE],
      [location |-> Str("Berlin"), remote |-> FALSE],
      [location |-> Str("Berlin"), remote |-> TRUE] }

\* req.body of a jobs/search request: queries is absent, a string, or a list.
Bodies ==
    {[method |-> "POST", queries |-> [k |-> "array", items |-> items],
      location |-> p.location, remote |-> p.remote] :
        items \in SeqsUpTo(QueryPool \cup {BlankQuery}, MaxQueries), p \in Preferences}
    \cup {[method |-> m, queries |-> [k |-> k, items |-> <<>>],
           location |-> Undefined, remote |-> FALSE] :
            m \in {"POST", "GET"}, k \in {"undefined", "string"}}

NoBody == [method |-> "", queries |-> [k |-> "undefined", items |-> <<>>],
           location |-> Undefined, remote |-> FALSE]

\* The texts the AI answers with: none, prose, broken JSON, and documents,
\* bare and wrapped in prose.
AITexts ==
    {"", "no braces here", "Sure! Here's the JSON: {not valid json", "{not json}", "} {"}
        \cup {JSONstringify(d) : d \in JsonUniverse}
        \cup {"Sure! Here's the JSON: " \o JSONstringify(d) \o " Enjoy." :
                d \in {e \in JsonUniverse : Len(e.jobs.items) <= 1}}

AIOutcomes == {Rejected, Resolved(Undefined)} \cup {Resolved(Str(t)) : t \in AITexts}

NoOutcome == [kind |-> "none", text |-> Undefined]

Response(status, jobs, message) == [status |-> status, jobs |-> jobs, message |-> message]
NoResponse == Response(0, <<>>, "")

-----------------------------------------------------------------------------
(* The jobs/search handler.                                                *)

\* generateJobsWithGemini has not been called by the request.
NoEngine == [invocations |-> 0, queries |-> <<>>, generateContent |-> 0]

\* generateJobsWithGemini was called once with the queries, and called
\* generateContent that many times before it returned or waited.
EngineCalled(queries, generateContent) ==
    [invocations |-> 1, queries |-> queries, generateContent |-> generateContent]

\* queries.filter((query) => query?.title && query?.query)
parsedQueries(b) == SelectSeq(b.queries.items, LAMBDA q : q.title # "" /\ q.query # "")

\* RejectsQueries that only tests Array.isArray(queries).
RejectsQueriesNotList(b) == b.queries.k # "array"

\* !Array.isArray(queries) || queries.length === 0, and then
\* parsedQueries.length === 0
RejectsQueries(b) ==
    b.queries.k # "array" \/ b.queries.items = <<>> \/ parsedQueries(b) = <<>>

\* getModel throws when no model is cached and no key is configured.
getModelThrows == cachedModel = "null" /\ geminiKey = ""

\* The handler from its entry to the first await: it answers at once (405,
\* 400, or 500 when getModel throws inside generateJobsWithGemini, which the
\* handler's catch turns into a 500), or it calls generateContent and waits.
JobsSearchRequest ==
    /\ pc = "idle"
    /\ \E b \in Bodies :
        /\ body' = b
        /\ IF b.method # "POST"
              THEN /\ response' = Response(405, <<>>, "Method Not Allowed")
                   /\ pc' = "done"
                   /\ UNCHANGED <<cachedModel, engine>>
           ELSE IF RejectsQueries(b)
              THEN /\ response' = Response(400, <<>>, "Provide at least one job query.")
                   /\ pc' = "done"
                   /\ UNCHANGED <<cachedModel, engine>>
           ELSE IF getModelThrows
              THEN /\ response' = Response(500, <<>>, "Failed to fetch job listings.")
                   /\ pc' = "done"
                   /\ engine' = EngineCalled(parsedQueries(b), 0)
                   /\ UNCHANGED cachedModel
           ELSE /\ cachedModel' = "model"
                /\ response' = NoResponse
                /\ engine' = EngineCalled(parsedQueries(b), 1)
                /\ pc' = "awaitAI"
    /\ UNCHANGED <<geminiKey, now, ai, parseIn, parseOut, seeds, picked, calls,
                   libCall, resume, slots>>

\* generateContent settles; generateJobsWithGemini resolves and the handler
\* answers 200 with the list.
AIAnswers ==
    /\ pc = "awaitAI"
    /\ \E outcome \in AIOutcomes :
        /\ ai' = outcome
        /\ response' = Response(200,
                                JobsAfterAwait(outcome, parsedQueries(body), body.location,
                                               body.remote, now),
                                "")
    /\ pc' = "done"
    /\ UNCHANGED <<geminiKey, cachedModel, now, body, parseIn, parseOut, seeds, picked, calls,
                   libCall, resume, engine, slots>>

\* The response is sent; the process is ready for the next request.
Finish ==
    /\ pc = "done"
    /\ pc' = "idle"
    /\ body' = NoBody
    /\ ai' = NoOutcome
    /\ response' = NoResponse
    /\ engine' = NoEngine
    /\ UNCHANGED <<geminiKey, cachedModel, now, parseIn, parseOut, seeds, picked, calls,
                   libCall, resume, slots>>

\* Time passes.
Tick ==
    /\ now < MaxClock
    /\ now' = now + 1
    /\ UNCHANGED <<geminiKey, cachedModel, pc, body, ai, response,
                   parseIn, parseOut, seeds, picked, calls,
                   libCall, resume, engine, slots>>

\* No request is in either slot.
NoSlots == <<>>

NoParse == [ok |-> FALSE, error |-> "not called", value |-> NoDoc]

\* No helper has been called.
NoCall == [fn |-> "none"]

\* The response of the analyze-resume handler; details and analysis are
\* undefined when the body does not carry them.
AnalyzeResponse(status, message, details, snippet, analysis) ==
    [status |-> status, message |-> message, details |-> details,
     resumeTextSnippet |-> snippet, analysis |-> analysis]

NoAnalyzeResponse == AnalyzeResponse(0, "", Undefined, Undefined, Undefined)

\* req.method and the members of req.body of an analyze-resume request; ""
\* for a missing member.
ResumeRequest(method, fileName, fileType, base64Data) ==
    [method |-> method, fileName |-> fileName, fileType |-> fileType,
     base64Data |-> base64Data]

NoResumeRequest == ResumeRequest("", "", "", "")

\* No analyze-resume request is being served by the handler: text is the
\* extracted text, ai the outcome of generateContent, error the message of
\* the error the handler caught; extractCalls and aiCalls count the calls of
\* extractResumeText and of generateContent the request has made.
ResumeIdle(handler) ==
    [handler |-> handler, pc |-> "idle", request |-> NoResumeRequest, text |-> Undefined,
     ai |-> NoOutcome, error |-> Undefined, response |-> NoAnalyzeResponse,
     extractCalls |-> 0, aiCalls |-> 0]

Quiet ==
    /\ libCall = NoCall
    /\ engine = NoEngine
    /\ slots = NoSlots
    /\ resume = ResumeIdle("serverless")
    /\ parseIn = Undefined
    /\ parseOut = NoParse
    /\ seeds = <<0, 0>>
    /\ picked = <<-1, -1>>
    /\ calls = <<>>

Idle ==
    /\ pc = "idle"
    /\ body = NoBody
    /\ ai = NoOutcome
    /\ response = NoResponse
    /\ cachedModel = "null"
    /\ now = 0

Init ==
    /\ geminiKey \in {"", "key"}
    /\ Idle
    /\ Quiet

Next == JobsSearchRequest \/ AIAnswers \/ Finish \/ Tick

Spec == Init /\ [][Next]_vars

-----------------------------------------------------------------------------
(* safeJsonParse called on its own.                                        *)

\* Prose without braces, as the AI puts it around a document.
Prose == {"", "Sure! Here's the JSON: ", " Enjoy."}

\* The texts safeJsonParse is called with: braces missing or out of order,
\* broken JSON, and documents between prose or stray braces.
ParseTexts ==
    {"", "no braces here", "{", "}", "} {", "{not json}",
     "Sure! Here's the JSON: {not valid json"}
        \cup {p \o DocTexts[d] \o q :
                p \in Prose \cup {"} ", "{x "}, d \in JsonUniverse,
                q \in Prose \cup {" x}", " {"}}

\* One call of safeJsonParse: its argument and what it returned or threw.
ParseCall ==
    /\ parseOut = NoParse
    /\ \E text \in {Undefined} \cup {Str(t) : t \in ParseTexts} :
        /\ parseIn' = text
        /\ parseOut' = safeJsonParse(text)
    /\ UNCHANGED <<geminiKey, cachedModel, now, pc, body, ai, response,
                   seeds, picked, calls,
                   libCall, resume, engine, slots>>

\* The caller has used the result.
ParseReturn ==
    /\ parseOut # NoParse
    /\ parseIn' = Undefined
    /\ parseOut' = NoParse
    /\ UNCHANGED <<geminiKey, cachedModel, now, pc, body, ai, response,
                   seeds, picked, calls,
                   libCall, resume, engine, slots>>

NextParse == ParseCall \/ ParseReturn

SpecParse == Init /\ [][NextParse]_vars

-----------------------------------------------------------------------------
(* selectSearchProvider called on two seeds.                               *)

\* Seeds are results of hashString: 32-bit integers.
Seeds == (-MaxSeed..MaxSeed) \cup {MinInt32, MinInt32 + 1, MaxInt32 - 1, MaxInt32}

SelectCall ==
    /\ \E s \in Seeds, t \in Seeds :
        /\ seeds' = <<s, t>>
        /\ picked' = <<selectSearchProvider(s), selectSearchProvider(t)>>
    /\ UNCHANGED <<geminiKey, cachedModel, now, pc, body, ai, response,
                   parseIn, parseOut, calls,
                   libCall, resume, engine, slots>>

NextSelect == SelectCall

SpecSelect == Init /\ [][NextSelect]_vars

-----------------------------------------------------------------------------
(* buildFallbackJobs called twice.                                         *)

FallbackCall ==
    /\ Len(calls) < 2
    /\ \E queries \in SeqsUpTo(QueryPool, MaxQueries), p \in Preferences :
        calls' = Append(calls,
                        [queries |-> queries, location |-> p.location, remote |-> p.remote,
                         clock |-> now,
                         jobs |-> buildFallbackJobs(queries, p.location, p.remote, now)])
    /\ UNCHANGED <<geminiKey, cachedModel, now, pc, body, ai, response,
                   parseIn, parseOut, seeds, picked,
                   libCall, resume, engine, slots>>

NextFallback == FallbackCall \/ Tick

SpecFallback == Init /\ [][NextFallback]_vars

-----------------------------------------------------------------------------
(* What the claims speak of.                                               *)

\* The handler has answered a request that carried at least one usable query.
AnsweredSearch ==
    /\ pc = "done"
    /\ body.method = "POST"
    /\ body.queries.k = "array"
    /\ parsedQueries(body) # <<>>

\* The handler has answered 200: response.jobs is what generateJobsWithGemini
\* resolved with.
AnsweredJobs == AnsweredSearch /\ response.status = 200

\* The fallback list for the answered request, at some value of the clock.
IsFallbackOfRequest(jobs) ==
    \E clock \in 0..MaxClock :
        jobs = buildFallbackJobs(parsedQueries(body), body.location, body.remote, clock)

\* The text from its first '{' to its last '}', or "" when there is no such
\* block (1-based positions).
BraceBlock(text) ==
    LET opens == {i \in 1..Len(text) : SubSeq(text, i, i) = "{"}
        closes == {i \in 1..Len(text) : SubSeq(text, i, i) = "}"}
    IN IF opens = {} \/ closes = {} THEN ""
       ELSE IF Max(closes) <= Min(opens) THEN ""
       ELSE SubSeq(text, Min(opens), Max(closes))

IsValidJson(text) == text \in DOMAIN ParseTable

\* The failures of the AI path: the call rejects, the text is empty, there
\* is no block, the block is not valid JSON, 'jobs' is missing, not a list
\* or empty.
AIPathFails(outcome) ==
    \/ outcome.kind = "rejected"
    \/ ~IsString(outcome.text)
    \/ outcome.text.s = ""
    \/ BraceBlock(outcome.text.s) = ""
    \/ ~IsValidJson(BraceBlock(outcome.text.s))
    \/ ParseTable[BraceBlock(outcome.text.s)].jobs.k # "array"
    \/ ParseTable[BraceBlock(outcome.text.s)].jobs.items = <<>>

\* The entries of the document the AI answered with (none on a failure).
AIEntries ==
    IF ai.kind = "none" \/ AIPathFails(ai) THEN <<>>
    ELSE ParseTable[BraceBlock(ai.text.s)].jobs.items

-----------------------------------------------------------------------------
(* C1 *)

\* C1: with no API key, a search with a non-empty query list is answered 200
\* with the fallback list and never with a 500.
C1_UnconfiguredAnswersFallback ==
    (AnsweredSearch /\ geminiKey = "")
        => (response.status = 200 /\ IsFallbackOfRequest(response.jobs))

-----------------------------------------------------------------------------
(* C2 *)

\* C2: with a configured client and a non-empty query list, every failure of
\* the AI path ends in a 200 answer carrying the fallback list, which is not
\* empty.
C2_AIFailureFallsBack ==
    (AnsweredSearch /\ geminiKey # "" /\ ai.kind # "none" /\ AIPathFails(ai))
        => /\ response.status = 200
           /\ response.jobs # <<>>
           /\ IsFallbackOfRequest(response.jobs)

C2_Witness ==
    /\ AnsweredJobs
    /\ geminiKey = "key"
    /\ ai = Resolved(Str("Sure! Here's the JSON: {not valid json"))
    /\ Len(response.jobs) = 2 * ResultsPerQuery
    /\ IsFallbackOfRequest(response.jobs)

-----------------------------------------------------------------------------
(* C3 *)

\* C3: every posting of a 200 answer, from the AI path or the fallback path,
\* has a url that starts with "https://".
C3_LinkAlwaysHttps ==
    AnsweredJobs
        => \A i \in 1..Len(response.jobs) : startsWith(response.jobs[i].url, "https://")

\* The AI supplied an http:// link and a missing link; both postings came
\* back on the AI path with https links.
C3_Witness ==
    /\ AnsweredJobs
    /\ Len(AIEntries) = 2
    /\ AIEntries[1].link = Str("http://example.com/x")
    /\ AIEntries[2].link = Undefined
    /\ Len(response.jobs) = 2
    /\ response.jobs[1].id = "1"
    /\ \A i \in 1..2 : startsWith(response.jobs[i].url, "https://")

-----------------------------------------------------------------------------
(* C4 *)

\* C4: every posting of a 200 answer has a non-empty company for which
\* isGenericCompanyName is false.
C4_CompanyNeverGeneric ==
    AnsweredJobs
        => \A i \in 1..Len(response.jobs) :
              /\ response.jobs[i].company # ""
              /\ ~isGenericCompanyName(response.jobs[i].company)

-----------------------------------------------------------------------------
(* C5 *)

\* C5: no two postings of one 200 answer have the same (company, url) pair.
C5_NoDuplicatePostings ==
    AnsweredJobs
        => \A i \in 1..Len(response.jobs), j \in 1..Len(response.jobs) :
              (i < j) => ~(/\ response.jobs[i].company = response.jobs[j].company
                           /\ response.jobs[i].url = response.jobs[j].url)

-----------------------------------------------------------------------------
(* C6 *)

\* C6: the ids of the postings of one 200 answer are pairwise distinct.
C6_IdsDistinct ==
    AnsweredJobs
        => \A i \in 1..Len(response.jobs), j \in 1..Len(response.jobs) :
              (i < j) => response.jobs[i].id # response.jobs[j].id

-----------------------------------------------------------------------------
(* C7 *)

SameInputs(a, b) ==
    a.queries = b.queries /\ a.location = b.location /\ a.remote = b.remote

\* The id of the k-th posting of a call without its timestamp suffix.
IdStem(call, k) ==
    SubSeq(call.jobs[k].id, 1, Len(call.jobs[k].id) - Len(Decimal(call.clock)))

\* C7: two calls of buildFallbackJobs with identical (queries, location,
\* remote) return lists equal element by element in every field but id, and
\* the ids differ only in their timestamp suffix; at the same clock value the
\* lists are equal.
C7_FallbackDeterministic ==
    \A i \in 1..Len(calls), j \in 1..Len(calls) :
        SameInputs(calls[i], calls[j])
            => /\ Len(calls[i].jobs) = Len(calls[j].jobs)
               /\ \A k \in 1..Len(calls[i].jobs) :
                    /\ [calls[i].jobs[k] EXCEPT !.id = ""] = [calls[j].jobs[k] EXCEPT !.id = ""]
                    /\ IdStem(calls[i], k) = IdStem(calls[j], k)
                    /\ calls[i].jobs[k].id = IdStem(calls[i], k) \o Decimal(calls[i].clock)
               /\ (calls[i].clock = calls[j].clock => calls[i].jobs = calls[j].jobs)

\* Two calls with the same two queries at different times: the lists differ,
\* in the ids only.
C7_Witness ==
    /\ Len(calls) = 2
    /\ SameInputs(calls[1], calls[2])
    /\ Len(calls[1].queries) = 2
    /\ calls[1].clock # calls[2].clock
    /\ calls[1].jobs # calls[2].jobs
    /\ Len(calls[2].jobs) = 2 * ResultsPerQuery

-----------------------------------------------------------------------------
(* C8 *)

\* C8: buildFallbackJobs returns max(providerCount, 5) postings for each
\* query, in query order and offset order: |queries| * max(providerCount, 5)
\* postings in all, at least 5 when there is a query.
C8_FallbackCount ==
    \A c \in 1..Len(calls) :
        LET call == calls[c]
            perQuery == Max({ProviderCount, 5})
        IN /\ Len(call.jobs) = Len(call.queries) * perQuery
           /\ (call.queries # <<>> => Len(call.jobs) >= 5)
           /\ \A q \in 1..Len(call.queries), o \in 1..perQuery :
                LET job == call.jobs[(q - 1) * perQuery + o]
                IN /\ startsWith(job.id, "fallback-" \o Decimal(q - 1) \o "-"
                                            \o Decimal(o - 1) \o "-")
                   /\ startsWith(job.title, call.queries[q].title \o " at ")

\* A call with two different queries returned ten postings, the second
\* query's after the first's.
C8_Witness ==
    /\ Len(calls) >= 1
    /\ Len(calls[1].queries) = 2
    /\ calls[1].queries[1].title = "SRE"
    /\ calls[1].queries[2].title = "Chef"
    /\ Len(calls[1].jobs) = 10
    /\ startsWith(calls[1].jobs[5].title, "SRE at ")
    /\ startsWith(calls[1].jobs[6].title, "Chef at ")

-----------------------------------------------------------------------------
(* C9 *)

Selected == picked # <<-1, -1>>

\* |s| and |t| are congruent modulo n (computed without leaving 32 bits).
SameMagnitudeClass(s, t, n) ==
    IF (s >= 0) = (t >= 0) THEN (s % n) = (t % n) ELSE ((s + t) % n) = 0

\* C9 as stated: two seeds congruent modulo the provider count select the
\* same provider.
C9_CongruentSeedsSameProvider ==
    (Selected /\ (seeds[1] % ProviderCount) = (seeds[2] % ProviderCount))
        => picked[1] = picked[2]

\* C9, amended: two seeds whose absolute values are congruent modulo the
\* provider count select the same provider.
C9_CongruentMagnitudesSameProvider ==
    (Selected /\ SameMagnitudeClass(seeds[1], seeds[2], ProviderCount))
        => picked[1] = picked[2]

\* A negative and a positive seed of congruent magnitudes, and one provider.
C9_Witness ==
    /\ seeds = <<-6, 11>>
    /\ picked = <<1, 1>>

-----------------------------------------------------------------------------
(* C10 *)

ParseCalled == parseOut # NoParse

\* C10: safeJsonParse fails when the text is empty or has no block from a
\* first '{' to a later last '}'; otherwise it succeeds exactly when that
\* block is valid JSON, with the block's value; a document between
\* brace-free prose is returned.
C10_SafeJsonParseContract ==
    ParseCalled
        => /\ IF ~IsString(parseIn) THEN ~parseOut.ok
              ELSE IF parseIn.s = "" \/ BraceBlock(parseIn.s) = "" THEN ~parseOut.ok
              ELSE IF IsValidJson(BraceBlock(parseIn.s))
                 THEN parseOut.ok /\ parseOut.value = ParseTable[BraceBlock(parseIn.s)]
              ELSE ~parseOut.ok
           /\ \A d \in JsonUniverse, before \in Prose, after \in Prose :
                parseIn = Str(before \o DocTexts[d] \o after)
                    => parseOut.ok /\ parseOut.value = d

\* Prose, a document with one posting, prose: the document came back.
C10_Witness ==
    /\ ParseCalled
    /\ IsString(parseIn)
    /\ startsWith(parseIn.s, "Sure! Here's the JSON: {\"jobs\":[{")
    /\ BraceBlock(parseIn.s) \o " Enjoy." = SubSeq(parseIn.s, 24, Len(parseIn.s))
    /\ parseOut.ok
    /\ Len(parseOut.value.jobs.items) = 1

-----------------------------------------------------------------------------
(* The helpers of the library called on their own.                         *)

\* Every company name of COMPANY_BUCKETS and DEFAULT_COMPANIES.
SampleCompanies ==
    {DEFAULT_COMPANIES[i] : i \in 1..Len(DEFAULT_COMPANIES)}
        \cup UNION {{COMPANY_BUCKETS[b].companies[i] : i \in 1..Len(COMPANY_BUCKETS[b].companies)} :
                       b \in 1..Len(COMPANY_BUCKETS)}

\* The names isGenericCompanyName is asked about: the phrases and placeholder
\* words in three letter cases, bare and between blanks, blank and short
\* names, and concrete names.
CandidateNames ==
    {"", " ", "   ", "a", "Ab", " ab ", "abc", "Canva", "Company", "Company X", "Nano"}
        \cup SampleCompanies
        \cup UNION {{w, toUpperCase(w), toTitleCase(w), "  " \o toTitleCase(w) \o " "} :
                       w \in GenericPhrases \cup PlaceholderWords \cup GenericNouns}

IsGenericCall ==
    /\ libCall = NoCall
    /\ \E name \in CandidateNames :
        libCall' = [fn |-> "isGenericCompanyName", name |-> name,
                    result |-> isGenericCompanyName(name)]
    /\ UNCHANGED <<geminiKey, cachedModel, now, pc, body, ai, response,
                   parseIn, parseOut, seeds, picked, calls, resume, engine, slots>>

\* The caller has used the result.
CallReturn ==
    /\ libCall # NoCall
    /\ libCall' = NoCall
    /\ UNCHANGED <<geminiKey, cachedModel, now, pc, body, ai, response,
                   parseIn, parseOut, seeds, picked, calls, resume, engine, slots>>

\* The links ensureCompanyLink is given: none, empty, not https, https but
\* unparsable, on a provider's host with and without a company slug, and on
\* hosts of no provider.
UnparsableLinks == {"https://", "https://bad host/x"}

ProviderLinks ==
    {"https://www.linkedin.com/jobs/search/?keywords=canva",
     "https://www.Indeed.com/jobs?q=CANVA+designer",
     "https://www.indeed.com/jobs?q=designer",
     "https://ph.jobstreet.com/jobs"}

OtherLinks ==
    {"https://careers.canva.com/jobs/1", "https://example.org/x",
     "https://boards.greenhouse.io/acme/jobs/123"}

RawLinks ==
    {Null, Str(""), Str("http://www.linkedin.com/jobs/search/?keywords=canva"),
     Str("www.indeed.com/jobs?q=canva")}
        \cup {Str(l) : l \in UnparsableLinks \cup ProviderLinks \cup OtherLinks}

\* Companies as normaliseCompanyName returns them (never empty); the last
\* has an empty slug.
CompanyNames == {"Canva", "New Relic", "!!!"}

ModelSources == {Undefined, Str("Gemini pick"), Str("")}

EnsureLinkCall ==
    /\ libCall = NoCall
    /\ \E rawLink \in RawLinks, company \in CompanyNames, query \in QueryPool,
          p \in Preferences, index \in 0..MaxIndex, modelSource \in ModelSources :
        libCall' = [fn |-> "ensureCompanyLink", rawLink |-> rawLink, company |-> company,
                    fallbackQuery |-> query, location |-> p.location, remote |-> p.remote,
                    index |-> index, modelSource |-> modelSource,
                    result |-> ensureCompanyLink(rawLink, company, query, p.location,
                                                 p.remote, index, modelSource)]
    /\ UNCHANGED <<geminiKey, cachedModel, now, pc, body, ai, response,
                   parseIn, parseOut, seeds, picked, calls, resume, engine, slots>>

\* Hosts of applicant-tracking systems that show the employer in the first
\* path segment, hosts of aggregators, and paths.
TrackerHostNames ==
    {"boards.greenhouse.io", "jobs.lever.co", "jobs.ashbyhq.com", "jobs.smartrecruiters.com",
     "jobs.jobvite.com", "acme.wd1.myworkdayjobs.com"}

AggregatorHostNames ==
    {"www.linkedin.com", "ph.jobstreet.com", "www.glassdoor.com", "prosple.com",
     "uk.indeed.com", "www.ziprecruiter.com", "jobs.lever.co.linkedin.com"}

LinkPaths == {"", "/", "/acme/jobs/123", "/acme-corp?gh_src=1", "/-/jobs", "/company/acme"}

\* The links deriveCompanyFromLink is given.
DeriveLinks ==
    {"", "not a url", "https://", "https://careers.canva.com/jobs/1",
     "https://company.com/careers", "https://acme.workable.com/j/1",
     "https://wellfound.com/company/foo-bar/jobs"}
        \cup {"https://" \o host \o path :
                host \in TrackerHostNames \cup AggregatorHostNames, path \in LinkPaths}

RawCompanies ==
    {Null, Str(""), Str("  "), Str(" Canva "), Str("Acme Inc"), Str("Various companies"),
     Str("N/A"), Str("ab")}

DeriveCall ==
    /\ libCall = NoCall
    /\ \E link \in DeriveLinks :
        libCall' = [fn |-> "deriveCompanyFromLink", link |-> link,
                    result |-> deriveCompanyFromLink(link)]
    /\ UNCHANGED <<geminiKey, cachedModel, now, pc, body, ai, response,
                   parseIn, parseOut, seeds, picked, calls, resume, engine, slots>>

NormaliseCall ==
    /\ libCall = NoCall
    /\ \E rawCompany \in RawCompanies, link \in DeriveLinks, query \in QueryPool,
          index \in 0..MaxIndex :
        libCall' = [fn |-> "normaliseCompanyName", rawCompany |-> rawCompany, link |-> link,
                    query |-> query, index |-> index,
                    result |-> normaliseCompanyName(rawCompany, link, query, index)]
    /\ UNCHANGED <<geminiKey, cachedModel, now, pc, body, ai, response,
                   parseIn, parseOut, seeds, picked, calls, resume, engine, slots>>

-----------------------------------------------------------------------------
(* Resume analysis: extractResumeText, runGeminiAnalysis and the two       *)
(* analyze-resume handlers (the serverless function and the Express        *)
(* route).                                                                 *)

MAX_RESUME_LENGTH == 8000
SnippetLength == 1000

\* truncateContent without the ellipsis.
truncateContentBare(content) ==
    IF content = "" THEN ""
    ELSE IF Len(content) <= MAX_RESUME_LENGTH THEN content
    ELSE slice(content, 0, MAX_RESUME_LENGTH)

truncateContent(content) ==
    IF content = "" THEN ""
    ELSE IF Len(content) <= MAX_RESUME_LENGTH THEN content
    ELSE slice(content, 0, MAX_RESUME_LENGTH) \o "..."

RECURSIVE Pad(_, _)
Pad(s, n) == IF Len(s) >= n THEN s ELSE Pad(s \o s, n)

\* A resume longer than MAX_RESUME_LENGTH.
LongResume == Pad("Senior SRE. ", MAX_RESUME_LENGTH + 1)

\* Buffer.from(base64Data, 'base64').toString('utf-8') on the payloads of
\* the model.
Base64Table ==
    [payload \in {"IA==", "U1JF", "U2VuaW9yIFNSRS4gS3ViZXJuZXRlcywgR28u"} |->
        CASE payload = "IA==" -> " "
          [] payload = "U1JF" -> "SRE"
          [] payload = "U2VuaW9yIFNSRS4gS3ViZXJuZXRlcywgR28u" -> "Senior SRE. Kubernetes, Go."]

PdfType == "application/pdf"
DocxType == "application/vnd.openxmlformats-officedocument.wordprocessingml.document"

UnsupportedFileType == "Unsupported file type. Please upload PDF, DOCX, or TXT files."
NotConfigured == "Gemini model is not configured. Provide a valid GEMINI_API_KEY."
EmptyResponse == "Gemini returned an empty response."

Thrown(message) == [ok |-> FALSE, error |-> message, text |-> ""]
Returned(text) == [ok |-> TRUE, error |-> "", text |-> text]

\* What the parsers of pdf-parse and mammoth settle with.
LibraryOutcomes ==
    {Thrown("Invalid PDF structure"), Returned(""), Returned("  "),
     Returned("Senior SRE. Kubernetes, Go."), Returned(LongResume)}

\* The outcomes of extractResumeText(fileType, base64Data).
extractResumeText(fileType, base64Data) ==
    IF fileType = PdfType \/ fileType = DocxType THEN LibraryOutcomes
    ELSE IF startsWith(fileType, "text/") THEN {Returned(Base64Table[base64Data])}
    ELSE {Thrown(UnsupportedFileType)}

ResumeRequests ==
    {ResumeRequest("GET", "cv.pdf", PdfType, "U1JF"),
     ResumeRequest("POST", "", PdfType, "U1JF"),
     ResumeRequest("POST", "cv.pdf", "", "U1JF"),
     ResumeRequest("POST", "cv.pdf", PdfType, ""),
     ResumeRequest("POST", "cv.pdf", PdfType, "U1JF"),
     ResumeRequest("POST", "cv.docx", DocxType, "U1JF"),
     ResumeRequest("POST", "cv.txt", "text/plain", "IA=="),
     ResumeRequest("POST", "cv.txt", "text/plain", "U1JF"),
     ResumeRequest("POST", "cv.md", "text/markdown", "U2VuaW9yIFNSRS4gS3ViZXJuZXRlcywgR28u"),
     ResumeRequest("POST", "cv.png", "image/png", "U1JF")}

\* The texts the AI answers an analysis with.
AnalysisTexts ==
    {"", "no braces here", "{not json}", "} {"}
        \cup {DocTexts[d] : d \in AnalysisDocs}
        \cup {"Sure! Here's the JSON: " \o DocTexts[d] \o " Enjoy." :
                d \in {e \in AnalysisDocs : e.summary = Undefined /\ e.nextSteps = Undefined}}

AnalysisOutcomes ==
    {[kind |-> "rejected", text |-> Str("fetch failed")], Resolved(Undefined)}
        \cup {Resolved(Str(t)) : t \in AnalysisTexts}

\* parsed.member ?? ''
OrEmptyString(v) == IF v.k \in {"undefined", "null"} THEN Str("") ELSE v

\* ArrayOrEmpty without the Array.isArray test.
ArrayAsGiven(v) == v

\* Array.isArray(parsed.member) ? parsed.member : []
ArrayOrEmpty(v) == IF v.k = "array" THEN v ELSE List(<<>>)

AnalysisResult(parsed) ==
    [summary |-> OrEmptyString(parsed.summary),
     keywords |-> ArrayOrEmpty(parsed.keywords),
     strengths |-> ArrayOrEmpty(parsed.strengths),
     nextSteps |-> ArrayOrEmpty(parsed.nextSteps),
     jobQueries |-> ArrayOrEmpty(parsed.jobQueries)]

\* AnalysisOfParsed that answers a failed parse with an empty analysis.
AnalysisOfParsedOrEmpty(parsed) ==
    [ok |-> TRUE, error |-> "", value |-> AnalysisResult(parsed.value)]

AnalysisOfParsed(parsed) ==
    IF ~parsed.ok THEN [ok |-> FALSE, error |-> parsed.error, value |-> Undefined]
    ELSE [ok |-> TRUE, error |-> "", value |-> AnalysisResult(parsed.value)]

\* runGeminiAnalysis after its await: the analysis it returns or the message
\* of the error it throws.
AnalysisAfterAwait(outcome) ==
    IF outcome.kind = "rejected"
       THEN [ok |-> FALSE, error |-> outcome.text.s, value |-> Undefined]
    ELSE IF ~IsString(outcome.text) \/ outcome.text.s = ""
       THEN [ok |-> FALSE, error |-> EmptyResponse, value |-> Undefined]
    ELSE AnalysisOfParsed(safeJsonParse(outcome.text))

Handlers == {"serverless", "express"}

\* IsBlank that lets whitespace through.
IsEmptyText(resumeText) == resumeText = ""

\* !resumeText?.trim()
IsBlank(resumeText) == trim(resumeText) = ""

\* The body of the 500 answer of the catch block: the Express route adds
\* details: error.message.
AnalyzeFailure(handler, message) ==
    AnalyzeResponse(500, "Failed to analyze resume.",
                    IF handler = "express" THEN Str(message) ELSE Undefined,
                    Undefined, Undefined)

\* runGeminiAnalysis finds no model: the serverless function asks getModel,
\* the Express route reads the model made at load.
NoModel(handler) == IF handler = "express" THEN cachedModel = "null" ELSE getModelThrows

\* The handler from its entry to await extractResumeText.  The Express route
\* is registered for POST only.
AnalyzeRequest ==
    /\ resume.pc = "idle"
    /\ \E request \in ResumeRequests :
        /\ resume.handler = "express" => request.method = "POST"
        /\ IF request.method # "POST"
              THEN resume' = [resume EXCEPT !.request = request, !.pc = "done",
                                !.response = AnalyzeResponse(405, "Method Not Allowed",
                                               Undefined, Undefined, Undefined)]
           ELSE IF request.fileName = "" \/ request.fileType = "" \/ request.base64Data = ""
              THEN resume' = [resume EXCEPT !.request = request, !.pc = "done",
                                !.response = AnalyzeResponse(400, "Missing resume payload.",
                                               Undefined, Undefined, Undefined)]
           ELSE resume' = [resume EXCEPT !.request = request, !.pc = "awaitExtract",
                             !.extractCalls = @ + 1]
    /\ UNCHANGED <<geminiKey, cachedModel, now, pc, body, ai, response,
                   parseIn, parseOut, seeds, picked, calls, libCall, engine, slots>>

\* extractResumeText settles.  The handler answers 500 when it threw, 400
\* when the text is blank, 500 when runGeminiAnalysis finds no model; else
\* runGeminiAnalysis calls generateContent and waits.
ExtractionSettles ==
    /\ resume.pc = "awaitExtract"
    /\ \E extracted \in extractResumeText(resume.request.fileType, resume.request.base64Data) :
        IF ~extracted.ok
           THEN /\ resume' = [resume EXCEPT !.pc = "done", !.error = Str(extracted.error),
                                !.response = AnalyzeFailure(resume.handler, extracted.error)]
                /\ UNCHANGED cachedModel
        ELSE IF IsBlank(extracted.text)
           THEN /\ resume' = [resume EXCEPT !.pc = "done", !.text = Str(extracted.text),
                                !.response = AnalyzeResponse(400,
                                               "Unable to read text from the provided resume.",
                                               Undefined, Undefined, Undefined)]
                /\ UNCHANGED cachedModel
        ELSE IF NoModel(resume.handler)
           THEN /\ resume' = [resume EXCEPT !.pc = "done", !.text = Str(extracted.text),
                                !.error = Str(NotConfigured),
                                !.response = AnalyzeFailure(resume.handler, NotConfigured)]
                /\ UNCHANGED cachedModel
        ELSE /\ resume' = [resume EXCEPT !.pc = "awaitAI", !.text = Str(extracted.text),
                               !.aiCalls = @ + 1]
             /\ cachedModel' = "model"
    /\ UNCHANGED <<geminiKey, now, pc, body, ai, response,
                   parseIn, parseOut, seeds, picked, calls, libCall, engine, slots>>

AnswerAnalysis(outcome, analysis) ==
    IF ~analysis.ok
       THEN [resume EXCEPT !.pc = "done", !.ai = outcome, !.error = Str(analysis.error),
               !.response = AnalyzeFailure(resume.handler, analysis.error)]
    ELSE [resume EXCEPT !.pc = "done", !.ai = outcome,
            !.response = AnalyzeResponse(200, "", Undefined,
                           Str(slice(truncateContent(resume.text.s), 0, SnippetLength)),
                           analysis.value)]

\* generateContent settles; runGeminiAnalysis returns or throws and the
\* handler answers.
AnalysisAnswers ==
    /\ resume.pc = "awaitAI"
    /\ \E outcome \in AnalysisOutcomes :
        resume' = AnswerAnalysis(outcome, AnalysisAfterAwait(outcome))
    /\ UNCHANGED <<geminiKey, cachedModel, now, pc, body, ai, response,
                   parseIn, parseOut, seeds, picked, calls, libCall, engine, slots>>

\* The response is sent; the handler is ready for the next request.
AnalyzeFinish ==
    /\ resume.pc = "done"
    /\ resume' = ResumeIdle(resume.handler)
    /\ UNCHANGED <<geminiKey, cachedModel, now, pc, body, ai, response,
                   parseIn, parseOut, seeds, picked, calls, libCall, engine, slots>>

\* The process after load: the Express server makes its model at load when
\* a key is configured (and has none when making it failed).
InitAnalyze ==
    /\ geminiKey \in {"", "key"}
    /\ pc = "idle"
    /\ body = NoBody
    /\ ai = NoOutcome
    /\ response = NoResponse
    /\ now = 0
    /\ libCall = NoCall
    /\ parseIn = Undefined
    /\ parseOut = NoParse
    /\ seeds = <<0, 0>>
    /\ picked = <<-1, -1>>
    /\ calls = <<>>
    /\ engine = NoEngine
    /\ slots = NoSlots
    /\ \E handler \in Handlers :
        /\ resume = ResumeIdle(handler)
        /\ cachedModel \in (IF handler = "express" /\ geminiKey # ""
                              THEN {"model", "null"} ELSE {"null"})

NextAnalyze == AnalyzeRequest \/ ExtractionSettles \/ AnalysisAnswers \/ AnalyzeFinish

SpecAnalyze == InitAnalyze /\ [][NextAnalyze]_vars

-----------------------------------------------------------------------------
(* More helpers called on their own.                                       *)

\* Resume texts by length: around the snippet length and around
\* MAX_RESUME_LENGTH, of letters, of a sentence, and of dots.
ContentLengths ==
    {0, 1, 2, SnippetLength - 1, SnippetLength, SnippetLength + 1,
     MAX_RESUME_LENGTH - 1, MAX_RESUME_LENGTH, MAX_RESUME_LENGTH + 1, MAX_RESUME_LENGTH + 2,
     MAX_RESUME_LENGTH + 3, MAX_RESUME_LENGTH + 4, MAX_RESUME_LENGTH + SnippetLength}

Contents == {slice(Pad(seed, n), 0, n) : seed \in {"a", "Senior SRE. ", "."}, n \in ContentLengths}

\* truncateContent(content), truncateContent of that, and the snippet the
\* handler cuts from it.
TruncateCall ==
    /\ libCall = NoCall
    /\ \E content \in Contents :
        libCall' = [fn |-> "truncateContent", content |-> content,
                    result |-> truncateContent(content),
                    again |-> truncateContent(truncateContent(content)),
                    snippet |-> slice(truncateContent(content), 0, SnippetLength)]
    /\ UNCHANGED <<geminiKey, cachedModel, now, pc, body, ai, response,
                   parseIn, parseOut, seeds, picked, calls, resume, engine, slots>>

\* Running values of the hash: small ones, the int32 extremes, and the values
\* around which 31 * hash leaves the int32 range.
StepHashes ==
    (-MaxSeed..MaxSeed)
        \cup {MinInt32, MinInt32 + 1, MaxInt32 - 1, MaxInt32, Half - 1, Half, -Half,
              MaxInt32 \div 31, (MaxInt32 \div 31) + 1, MinInt32 \div 31,
              (MinInt32 \div 31) - 1}

\* Values of charCodeAt: UTF-16 code units.
StepCodes == {0, 32, 48, 97, 122, 255, Half - 1}

HashTexts ==
    {"", "a", "sre", "chef chef", "backend engineer backend engineer node",
     "SRE:sre:0:0", "SRE:sre iiblohc:0:2", "SRE:sre kvbvnte:0:2", "zzzzzzzzzzzz", "~~~~~~~"}

\* One round of the loop of hashString, and hashString of a text.
HashCall ==
    /\ libCall = NoCall
    /\ \/ \E hash \in StepHashes, code \in StepCodes :
            libCall' = [fn |-> "hashStep", hash |-> hash, code |-> code,
                        result |-> HashStep(hash, code)]
       \/ \E value \in HashTexts :
            libCall' = [fn |-> "hashString", value |-> value, result |-> hashString(value)]
    /\ UNCHANGED <<geminiKey, cachedModel, now, pc, body, ai, response,
                   parseIn, parseOut, seeds, picked, calls, resume, engine, slots>>

MaxSampleIndex == 11

\* Queries for pickSampleCompany on its own: those of the pool, one whose text
\* has keywords of two buckets, and one of no bucket with a negative hash.
SampleQueries ==
    QueryPool \cup {JobQuery("Data Platform", "api"), JobQuery("Baker", "oven")}

PickSampleCall ==
    /\ libCall = NoCall
    /\ \E query \in SampleQueries, index \in 0..MaxSampleIndex :
        libCall' = [fn |-> "pickSampleCompany", query |-> query, index |-> index,
                    result |-> pickSampleCompany(query, index)]
    /\ UNCHANGED <<geminiKey, cachedModel, now, pc, body, ai, response,
                   parseIn, parseOut, seeds, picked, calls, resume, engine, slots>>

\* Queries for buildFallbackJobs on its own.  At query index 0 the five seeds
\* of "sre iiblohc" are -2..2, those of "sre iyfyfhc" are -4..0, and those of
\* "sre kvbvnte" are 2^31-2, 2^31-1, -2^31, -2^31+1, -2^31+2.
FallbackQueries ==
    QueryPool \cup {JobQuery("SRE", "sre iiblohc"), JobQuery("SRE", "sre iyfyfhc"),
                    JobQuery("SRE", "sre kvbvnte")}

FallbackListCall ==
    /\ libCall = NoCall
    /\ \E queries \in SeqsUpTo(FallbackQueries, MaxQueries) \ {<<>>}, prefs \in Preferences :
        libCall' = [fn |-> "buildFallbackJobs", queries |-> queries,
                    result |-> buildFallbackJobs(queries, prefs.location, prefs.remote, now)]
    /\ UNCHANGED <<geminiKey, cachedModel, now, pc, body, ai, response,
                   parseIn, parseOut, seeds, picked, calls, resume, engine, slots>>

NextCalls ==
    \/ IsGenericCall
    \/ HashCall
    \/ EnsureLinkCall
    \/ DeriveCall
    \/ NormaliseCall
    \/ TruncateCall
    \/ PickSampleCall
    \/ FallbackListCall
    \/ CallReturn

SpecCalls == Init /\ [][NextCalls]_vars

-----------------------------------------------------------------------------
(* C11 *)

\* C11: isGenericCompanyName is true for every phrase of the generic-phrase
\* list in any letter case and between blanks, for blank names and for names
\* of at most two characters after trimming; it is false for "Canva" and for
\* every name of COMPANY_BUCKETS and DEFAULT_COMPANIES.
C11_GenericNameExclusion ==
    libCall.fn = "isGenericCompanyName"
        => /\ (\E phrase \in GenericPhrases :
                  \E pad \in {"", " ", "  "} :
                      libCall.name \in {pad \o v \o pad : v \in {phrase, toUpperCase(phrase),
                                                                 toTitleCase(phrase)}}
                      \/ libCall.name = "  " \o toTitleCase(phrase) \o " ")
                 => libCall.result
           /\ (libCall.name \in {"", " ", "   ", "a", "Ab", " ab "}) => libCall.result
           /\ (libCall.name = "Canva" \/ libCall.name \in SampleCompanies) => ~libCall.result

\* An upper-case phrase was judged generic.
C11_Witness ==
    /\ libCall.fn = "isGenericCompanyName"
    /\ libCall.name = "CONFIDENTIAL EMPLOYER"
    /\ libCall.result

-----------------------------------------------------------------------------
(* C12 - C15 *)

EnsureCalled == libCall.fn = "ensureCompanyLink"

\* The link a provider builds for the arguments of the call.
BuiltBy(provider) ==
    buildUrl(provider, libCall.fallbackQuery, libCall.company, libCall.location,
             libCall.remote)

\* The provider at abs(hash(title:query:index)) mod providerCount.
HashedProvider ==
    MathAbsMod(hashString(libCall.fallbackQuery.title \o ":" \o libCall.fallbackQuery.query
                             \o ":" \o Decimal(libCall.index)),
               ProviderCount)

\* The provider whose host the raw link's hostname contains, or -1.
MatchedProvider ==
    IF IsString(libCall.rawLink) /\ startsWith(libCall.rawLink.s, "https://")
          /\ libCall.rawLink.s \notin UnparsableLinks
       THEN findProviderForHost(ParseURL(libCall.rawLink.s).hostname)
       ELSE -1

ParsableHttps ==
    /\ IsString(libCall.rawLink)
    /\ startsWith(libCall.rawLink.s, "https://")
    /\ libCall.rawLink.s \notin UnparsableLinks

ContainsSlug ==
    /\ slugify(libCall.company) # ""
    /\ includes(toLowerCase(libCall.rawLink.s), slugify(libCall.company))

\* C12: for a raw link that is null, empty, not https or unparsable,
\* ensureCompanyLink returns the fallback: the link and the name of the
\* provider at abs(hash(title:query:index)) mod providerCount; the AI's
\* source label is not used.
C12_BadLinkGivesFallback ==
    (EnsureCalled /\ ~ParsableHttps)
        => libCall.result = [url |-> BuiltBy(HashedProvider),
                             source |-> SEARCH_PROVIDERS[HashedProvider + 1].name]

\* An unparsable https link with an AI label: the fallback came back.
C12_Witness ==
    /\ EnsureCalled
    /\ libCall.rawLink = Str("https://bad host/x")
    /\ libCall.modelSource = Str("Gemini pick")
    /\ libCall.index = 1
    /\ libCall.result.url = BuiltBy(HashedProvider)
    /\ libCall.result.source # "Gemini pick"

\* C13: for an https link on a provider's host that contains the company
\* slug, the url is the raw link and the source is that provider's name,
\* whatever label the AI supplied.
C13_ProviderLinkKeepsProviderName ==
    (EnsureCalled /\ ParsableHttps /\ MatchedProvider # -1 /\ ContainsSlug)
        => /\ libCall.result.url = libCall.rawLink.s
           /\ libCall.result.source = SEARCH_PROVIDERS[MatchedProvider + 1].name

\* C14: for an https link on the host of a provider P that does not contain
\* the company slug, the url is the one P builds from the fallback query, the
\* company, the location and the remote flag, and the source is P's name.
C14_ProviderLinkRebuilt ==
    (EnsureCalled /\ ParsableHttps /\ MatchedProvider # -1 /\ ~ContainsSlug)
        => /\ libCall.result.url = BuiltBy(MatchedProvider)
           /\ libCall.result.source = SEARCH_PROVIDERS[MatchedProvider + 1].name

\* A link on indeed.com without the slug, where the hash selects another
\* provider: the link was rebuilt by Indeed.
C14_Witness ==
    /\ EnsureCalled
    /\ libCall.rawLink = Str("https://www.indeed.com/jobs?q=designer")
    /\ libCall.company = "Canva"
    /\ libCall.modelSource = Str("Gemini pick")
    /\ MatchedProvider = 4
    /\ HashedProvider # 4
    /\ libCall.result.url = BuiltBy(4)
    /\ libCall.result.url # libCall.rawLink.s
    /\ libCall.result.source = "Indeed search"

\* C15: for a parsable https link on the host of no provider, the url is the
\* raw link, and when the link does not contain the company slug the source
\* is the source label of the fallback link.
C15_UnknownHostKeepsLink ==
    (EnsureCalled /\ ParsableHttps /\ MatchedProvider = -1)
        => /\ libCall.result.url = libCall.rawLink.s
           /\ (~ContainsSlug
                 => libCall.result.source = SEARCH_PROVIDERS[HashedProvider + 1].name)

-----------------------------------------------------------------------------
(* C16 - C18 *)

NormaliseCalled == libCall.fn = "normaliseCompanyName"

\* The raw company is a string that is not empty after trimming and not
\* generic.
UsableCompany ==
    /\ IsString(libCall.rawCompany)
    /\ trim(libCall.rawCompany.s) # ""
    /\ ~isGenericCompanyName(trim(libCall.rawCompany.s))

\* C16: normaliseCompanyName returns the trimmed raw company when it is
\* usable, whatever the link; else the name derived from the link when there
\* is one; else the sampled company.  The result is never empty.
C16_NormaliseTiersInOrder ==
    NormaliseCalled
        => /\ libCall.result # ""
           /\ IF UsableCompany THEN libCall.result = trim(libCall.rawCompany.s)
              ELSE IF deriveCompanyFromLink(libCall.link) # ""
                 THEN libCall.result = deriveCompanyFromLink(libCall.link)
              ELSE libCall.result = pickSampleCompany(libCall.query, libCall.index)

\* A usable company and a link that names another employer: the company won.
C16_Witness ==
    /\ NormaliseCalled
    /\ libCall.rawCompany = Str(" Canva ")
    /\ libCall.link = "https://boards.greenhouse.io/acme/jobs/123"
    /\ libCall.result = "Canva"

\* The link of the call is on a tracker's host, and its first path segment
\* ("" when there is none).
OnTrackerHost ==
    \E host \in TrackerHostNames, path \in LinkPaths : libCall.link = "https://" \o host \o path

FirstSegment ==
    IF \E host \in TrackerHostNames : libCall.link \in {"https://" \o host \o "/acme/jobs/123"}
       THEN "acme"
    ELSE IF \E host \in TrackerHostNames :
               libCall.link \in {"https://" \o host \o "/acme-corp?gh_src=1"}
       THEN "acme-corp"
    ELSE IF \E host \in TrackerHostNames : libCall.link \in {"https://" \o host \o "/-/jobs"}
       THEN "-"
    ELSE IF \E host \in TrackerHostNames :
               libCall.link \in {"https://" \o host \o "/company/acme"}
       THEN "company"
    ELSE ""

\* C17 as stated: with no usable company and a link on a tracker host, the
\* normalised company is the title-cased first path segment.
C17_TrackerSegmentIsCompany ==
    (NormaliseCalled /\ ~UsableCompany /\ OnTrackerHost /\ FirstSegment # "")
        => libCall.result = toTitleCase(FirstSegment)

\* C17, amended: the normalised company is the title-cased first path
\* segment when that is not empty, and the sampled company otherwise; with no
\* path segment no company is derived from the link.
C17_TrackerSegmentOrSample ==
    (NormaliseCalled /\ ~UsableCompany /\ OnTrackerHost)
        => /\ (FirstSegment # "" /\ toTitleCase(FirstSegment) # "")
                 => libCall.result = toTitleCase(FirstSegment)
           /\ (FirstSegment = "" \/ toTitleCase(FirstSegment) = "")
                 => /\ deriveCompanyFromLink(libCall.link) = ""
                    /\ libCall.result = pickSampleCompany(libCall.query, libCall.index)

\* No company and the greenhouse link of acme: "Acme".
C17_Witness ==
    /\ NormaliseCalled
    /\ libCall.rawCompany = Null
    /\ libCall.link = "https://boards.greenhouse.io/acme/jobs/123"
    /\ libCall.result = "Acme"

\* C18: deriveCompanyFromLink returns nothing for every link on an
\* aggregator's host, whatever its path and subdomain.
C18_AggregatorYieldsNothing ==
    (libCall.fn = "deriveCompanyFromLink"
        /\ \E host \in AggregatorHostNames, path \in LinkPaths :
              libCall.link = "https://" \o host \o path)
        => libCall.result = ""

-----------------------------------------------------------------------------
(* C19 *)

ListMembers == {"keywords", "strengths", "nextSteps", "jobQueries"}

\* The AI answered an analysis with a text whose block from the first '{' to
\* the last '}' is a JSON document.
AnsweredDocument ==
    /\ resume.pc = "done"
    /\ resume.ai.kind = "resolved"
    /\ IsString(resume.ai.text)
    /\ IsValidJson(BraceBlock(resume.ai.text.s))

AnsweredDoc == ParseTable[BraceBlock(resume.ai.text.s)]

\* C19: whenever the AI answers a JSON document, runGeminiAnalysis returns
\* (the handler answers 200) whatever members are missing or wrongly typed;
\* each of keywords, strengths, nextSteps and jobQueries of the analysis is
\* a list, the parsed member when that is a list and the empty list when it
\* is absent or not a list; summary is '' when the member is absent.
C19_AnalysisMembersCoerced ==
    AnsweredDocument
        => /\ resume.response.status = 200
           /\ \A member \in ListMembers :
                /\ resume.response.analysis[member].k = "array"
                /\ AnsweredDoc[member].k = "array"
                      => resume.response.analysis[member] = AnsweredDoc[member]
                /\ AnsweredDoc[member].k # "array"
                      => resume.response.analysis[member].items = <<>>
           /\ AnsweredDoc.summary = Undefined => resume.response.analysis.summary = Str("")

\* An answer with keywords as a string, strengths null, nextSteps a number
\* and no summary: the analysis has three empty lists and the job queries.
C19_Witness ==
    /\ AnsweredDocument
    /\ AnsweredDoc.summary = Undefined
    /\ AnsweredDoc.keywords = Str("sre, kubernetes")
    /\ AnsweredDoc.strengths = Null
    /\ AnsweredDoc.nextSteps = Num("3")
    /\ AnsweredDoc.jobQueries.k = "array"
    /\ resume.response.status = 200
    /\ resume.response.analysis.keywords = List(<<>>)
    /\ Len(resume.response.analysis.jobQueries.items) = 1

-----------------------------------------------------------------------------
(* C20 *)

\* The four failures of the claim, told from the request and the AI's
\* outcome: the file type is not supported; the text was extracted and
\* generateContent was never called (no model is configured); the AI's
\* response is empty; the AI's response does not parse.
UnsupportedType ==
    /\ resume.pc = "done"
    /\ resume.request.method = "POST"
    /\ resume.request.fileName # "" /\ resume.request.base64Data # ""
    /\ resume.request.fileType \notin {"", PdfType, DocxType}
    /\ ~startsWith(resume.request.fileType, "text/")

Unconfigured ==
    /\ resume.pc = "done"
    /\ IsString(resume.text) /\ trim(resume.text.s) # ""
    /\ resume.ai = NoOutcome

EmptyAnswer ==
    /\ resume.pc = "done"
    /\ resume.ai.kind = "resolved"
    /\ ~IsString(resume.ai.text) \/ resume.ai.text.s = ""

UnparsableAnswer ==
    /\ resume.pc = "done"
    /\ resume.ai.kind = "resolved"
    /\ IsString(resume.ai.text) /\ resume.ai.text.s # ""
    /\ ~IsValidJson(BraceBlock(resume.ai.text.s))

\* The messages of the error behind the failure.
FailureDetails ==
    IF UnsupportedType THEN {Str(UnsupportedFileType)}
    ELSE IF Unconfigured THEN {Str(NotConfigured)}
    ELSE IF EmptyAnswer THEN {Str(EmptyResponse)}
    ELSE IF UnparsableAnswer
       THEN {Str("Unable to locate JSON block in Gemini response."), Str("SyntaxError")}
    ELSE {}

Failed500 ==
    /\ resume.response.status = 500
    /\ resume.response.message = "Failed to analyze resume."
    /\ resume.response.analysis = Undefined

\* C20 as stated: each of the four failures ends in a 500 answer with the
\* generic message and the message of the underlying error as details, and
\* with no analysis.
C20_FailureAnswers500WithDetails ==
    FailureDetails # {} => Failed500 /\ resume.response.details \in FailureDetails

\* C20, amended: each of the four failures ends in a 500 answer with the
\* generic message and no analysis; the answer of the Express route carries
\* the message of the underlying error as details, the answer of the
\* serverless function carries no details.
C20_FailureAnswers500 ==
    FailureDetails # {}
        => /\ Failed500
           /\ resume.handler = "express" => resume.response.details \in FailureDetails
           /\ resume.handler = "serverless" => resume.response.details = Undefined

\* The serverless function answers an unparsable response of the AI.
C20_Witness ==
    /\ UnparsableAnswer
    /\ resume.handler = "serverless"
    /\ resume.response = AnalyzeResponse(500, "Failed to analyze resume.", Undefined,
                                         Undefined, Undefined)

-----------------------------------------------------------------------------
(* C21 *)

\* A POST request that lacks fileName, fileType or base64Data.
FieldMissing ==
    /\ resume.request.method = "POST"
    /\ resume.request.fileName = "" \/ resume.request.fileType = ""
          \/ resume.request.base64Data = ""

\* The extractor returned a text that is empty or whitespace only.
BlankExtracted == IsString(resume.text) /\ trim(resume.text.s) = ""

\* C21: a request with a missing field is answered 400 and never reaches the
\* extractor; an extracted text that is empty or blank is answered 400; no
\* request answered 400 has called generateContent, and generateContent is
\* only called after one extraction that gave a text that is not blank.
C21_BadRequestStopsEarly ==
    /\ (resume.pc = "done" /\ FieldMissing)
          => resume.response.status = 400 /\ resume.extractCalls = 0
    /\ (resume.pc = "done" /\ BlankExtracted) => resume.response.status = 400
    /\ resume.response.status = 400 => resume.aiCalls = 0 /\ resume.ai = NoOutcome
    /\ resume.aiCalls > 0
          => /\ resume.extractCalls = 1
             /\ ~FieldMissing
             /\ IsString(resume.text) /\ trim(resume.text.s) # ""

\* A whitespace-only text came out of the extractor: 400, and no AI call.
C21_Witness ==
    /\ resume.pc = "done"
    /\ resume.text = Str("  ")
    /\ resume.extractCalls = 1
    /\ resume.aiCalls = 0
    /\ resume.response.status = 400

-----------------------------------------------------------------------------
(* C22 *)

\* queries of the POST request is missing, not a list, or the empty list.
QueriesMissing ==
    /\ body.method = "POST"
    /\ body.queries.k # "array" \/ body.queries.items = <<>>

\* C22: a POST whose queries is missing, not a list or empty is answered 400
\* and generateJobsWithGemini is not called; no request answered 400 has
\* called it; whenever it is called its queries list is not empty, and the
\* list it returns is not empty.
C22_EngineNeedsQueries ==
    /\ (pc = "done" /\ QueriesMissing) => response.status = 400 /\ engine = NoEngine
    /\ response.status = 400 => engine.invocations = 0
    /\ engine.invocations > 0 => engine.queries # <<>>
    /\ response.status = 200 => engine.invocations = 1 /\ response.jobs # <<>>

\* An empty queries list was answered 400 without a call of the engine.
C22_Witness ==
    /\ pc = "done"
    /\ body.method = "POST"
    /\ body.queries = [k |-> "array", items |-> <<>>]
    /\ response.status = 400
    /\ engine = NoEngine

-----------------------------------------------------------------------------
(* C29 *)

\* The posting carries what the entry at (1-based) position i gave, and the
\* title of the query at position i mod queries.length where the entry gave
\* none.
MadeOfEntry(posting, entry, i, fallbackQuery) ==
    /\ posting.title = StringOr(entry.title, fallbackQuery.title)
    /\ posting.description
          = StringOr(entry.description,
                     "Review opportunities that align with " \o fallbackQuery.title \o ".")
    /\ \/ IsString(entry.id) /\ posting.id = entry.id.s
       \/ \E clock \in 0..MaxClock :
             posting.id = "gemini-" \o Decimal(clock) \o "-" \o Decimal(i - 1)
    /\ posting.url # ""

EntriesBecamePostings(entries, queries, jobs) ==
    IF \E i \in 1..Len(entries) : entries[i].k = "null"
       THEN IsFallbackOfRequest(jobs)
    ELSE /\ Len(jobs) = Len(entries)
         /\ \A i \in 1..Len(entries) :
               MadeOfEntry(jobs[i], entries[i], i, queries[((i - 1) % Len(queries)) + 1])

\* C29: when the AI answers a list with a null entry the response is the
\* complete fallback list; when no entry is null the response has one posting
\* for each entry, in the AI's order, entry i paired with
\* queries[i mod queries.length], and none is dropped.
C29_AllOrNothing ==
    (AnsweredJobs /\ ~AIPathFails(ai))
        => EntriesBecamePostings(ParseTable[BraceBlock(ai.text.s)].jobs.items,
                                 parsedQueries(body), response.jobs)

\* Two queries and two entries, the second without a title: it took the title
\* of the second query.
C29_Witness ==
    /\ AnsweredJobs
    /\ Len(parsedQueries(body)) = 2
    /\ parsedQueries(body)[1].title # parsedQueries(body)[2].title
    /\ Len(AIEntries) = 2
    /\ AIEntries[2].k = "object"
    /\ ~IsString(AIEntries[2].title)
    /\ AIEntries[1].k = "object"
    /\ response.jobs[2].title = parsedQueries(body)[2].title

-----------------------------------------------------------------------------
(* C25 *)

\* C25: truncateContent returns a content of at most MAX_RESUME_LENGTH
\* characters unchanged, and otherwise its first MAX_RESUME_LENGTH characters
\* followed by "..."; the result has at most MAX_RESUME_LENGTH + 3
\* characters; truncating the result again changes nothing; the snippet has
\* at most SnippetLength characters.
C25_TruncateContract ==
    libCall.fn = "truncateContent"
        => /\ Len(libCall.content) <= MAX_RESUME_LENGTH => libCall.result = libCall.content
           /\ Len(libCall.content) > MAX_RESUME_LENGTH
                 => libCall.result = SubSeq(libCall.content, 1, MAX_RESUME_LENGTH) \o "..."
           /\ Len(libCall.result) <= MAX_RESUME_LENGTH + 3
           /\ libCall.again = libCall.result
           /\ Len(libCall.snippet) <= SnippetLength

\* A content one character too long: cut, marked, and stable.
C25_Witness ==
    /\ libCall.fn = "truncateContent"
    /\ Len(libCall.content) = MAX_RESUME_LENGTH + 1
    /\ Len(libCall.result) = MAX_RESUME_LENGTH + 3
    /\ libCall.again = libCall.result
    /\ Len(libCall.snippet) = SnippetLength

-----------------------------------------------------------------------------
(* C26 *)

\* 31 * h + c reduced to -2^31..2^31-1, for an int32 h and a code unit c,
\* from the 16-bit halves of h:  h = hi * 2^16 + lo, so
\* 31 * h + c = (31 * hi + carry) * 2^16 + low with 31 * lo + c = carry * 2^16 + low.
Times31Plus(h, c) ==
    LET low == 31 * (h % Half) + c
        high == 31 * (h \div Half) + (low \div Half)
    IN ((((high + 32768) % Half) - 32768) * Half) + (low % Half)

\* The recurrence over the rest of the text (the test on the next value makes
\* it a number before the next round).
RECURSIVE Recurrence(_, _)
Recurrence(h, value) ==
    IF value = "" THEN h
    ELSE LET next == Times31Plus(h, CharCodeTable[Head(value)])
         IN IF next >= MinInt32 THEN Recurrence(next, Tail(value)) ELSE next

\* C26: one round of hashString's loop gives 31 * hash + code reduced to the
\* signed 32-bit range, and hashString of a text is the recurrence
\* h = h * 31 + charCode from 0, reduced after every step.
C26_HashIsTimes31Recurrence ==
    /\ libCall.fn = "hashStep"
          => /\ libCall.result = Times31Plus(libCall.hash, libCall.code)
             /\ MinInt32 <= libCall.result /\ libCall.result <= MaxInt32
    /\ libCall.fn = "hashString" => libCall.result = Recurrence(0, libCall.value)

\* 31 * (2^31 - 1) + 97 overflows: it is 2^31 - 31 + 97 - 2^32 modulo 2^32.
C26_Witness ==
    /\ libCall.fn = "hashStep"
    /\ libCall.hash = MaxInt32
    /\ libCall.code = 97
    /\ libCall.result = MinInt32 + 66

-----------------------------------------------------------------------------
(* C27 *)

\* C27: for every seed the position Math.abs(seed) % providerCount is one of
\* 0..providerCount-1, so SEARCH_PROVIDERS has an entry there and its
\* buildUrl can be called.
C27_ProviderIndexInRange ==
    Selected
        => \A i \in 1..2 :
              /\ picked[i] \in 0..(ProviderCount - 1)
              /\ picked[i] + 1 \in DOMAIN SEARCH_PROVIDERS
              /\ picked[i] = MathAbsMod(seeds[i], Len(SEARCH_PROVIDERS))

\* The seeds -2^31 and 0: Math.abs(-2^31) is 2^31, and 2^31 % 5 is 3.
C27_Witness ==
    /\ seeds = <<MinInt32, 0>>
    /\ picked = <<3, 0>>

-----------------------------------------------------------------------------
(* C28 *)

\* Bucket b of the table has a keyword that occurs in text.
BucketMatches(b, text) ==
    \E k \in 1..Len(COMPANY_BUCKETS[b].keywords) :
        includes(text, COMPANY_BUCKETS[b].keywords[k])

\* list is the company list of the first bucket in table order that matches
\* text, or the default list when no bucket matches.
IsListOf(list, text) ==
    \/ \E b \in 1..Len(COMPANY_BUCKETS) :
          /\ BucketMatches(b, text)
          /\ \A earlier \in 1..(b - 1) : ~BucketMatches(earlier, text)
          /\ list = COMPANY_BUCKETS[b].companies
    \/ /\ \A b \in 1..Len(COMPANY_BUCKETS) : ~BucketMatches(b, text)
       /\ list = DEFAULT_COMPANIES

\* company is the entry of list at the 0-based position (magnitude + index)
\* mod length, for a magnitude given by its residue.
IsEntryAt(company, list, residue, index) ==
    /\ company = list[((residue + (index % Len(list))) % Len(list)) + 1]
    /\ \E i \in 1..Len(list) : company = list[i]

SampledAt(call, text, list, residue) ==
    /\ text = toLowerCase(call.query.title \o " " \o call.query.query)
    /\ IsListOf(list, text)
    /\ IsEntryAt(call.result, list, residue, call.index)

\* C28 (as stated): the company is the entry at (hash(text) + index) mod
\* listLength of the list of the first matching bucket.
C28_SampleAtHashPlusIndex ==
    libCall.fn = "pickSampleCompany"
        => \E list \in {COMPANY_BUCKETS[b].companies : b \in 1..Len(COMPANY_BUCKETS)}
                           \cup {DEFAULT_COMPANIES} :
              LET text == toLowerCase(libCall.query.title \o " " \o libCall.query.query)
              IN SampledAt(libCall, text, list, hashString(text) % Len(list))

\* C28 (amended): the company is the entry at (abs(hash(text)) + index) mod
\* listLength of the list of the first matching bucket (else of the default
\* list), and so a member of that list, for negative hashes too.
C28_SampleAtAbsHashPlusIndex ==
    libCall.fn = "pickSampleCompany"
        => \E list \in {COMPANY_BUCKETS[b].companies : b \in 1..Len(COMPANY_BUCKETS)}
                           \cup {DEFAULT_COMPANIES} :
              LET text == toLowerCase(libCall.query.title \o " " \o libCall.query.query)
              IN SampledAt(libCall, text, list, MathAbsMod(hashString(text), Len(list)))

\* "sre sre" hashes to -1953192788: its magnitude is 3 mod 5, and with index 4
\* the third company of the devops bucket is returned.
C28_Witness ==
    /\ libCall.fn = "pickSampleCompany"
    /\ libCall.query = JobQuery("SRE", "sre")
    /\ libCall.index = 4
    /\ hashString("sre sre") < 0
    /\ libCall.result = "GitHub"

-----------------------------------------------------------------------------
(* C30 *)

\* The postings of a fallback list made for the query at queryIndex (0-based).
PostingsOfQuery(jobs, queryIndex) ==
    [offset \in 1..ResultsPerQuery |-> jobs[queryIndex * ResultsPerQuery + offset]]

CompaniesDistinct(postings) ==
    \A i, j \in DOMAIN postings : i # j => postings[i].company # postings[j].company

\* Pairwise-distinct sources; with five postings and five boards, each board
\* exactly once.
ProvidersDistinct(postings) ==
    /\ \A i, j \in DOMAIN postings : i # j => postings[i].source # postings[j].source
    /\ ResultsPerQuery = ProviderCount
          => \A p \in DOMAIN SEARCH_PROVIDERS :
                \E i \in DOMAIN postings : postings[i].source = SEARCH_PROVIDERS[p].name

\* hash(title:query:queryIndex:offset)
FallbackSeed(query, queryIndex, offset) ==
    hashString(query.title \o ":" \o query.query \o ":"
                  \o Decimal(queryIndex) \o ":" \o Decimal(offset))

\* The seeds of one query are all >= 0 or all <= 0.
SeedsOfOneSign(query, queryIndex) ==
    \/ \A offset \in 0..(ResultsPerQuery - 1) : FallbackSeed(query, queryIndex, offset) >= 0
    \/ \A offset \in 0..(ResultsPerQuery - 1) : FallbackSeed(query, queryIndex, offset) <= 0

DistinctForQuery(postings, query, queryIndex, needOneSign) ==
    /\ CompaniesDistinct(postings)
    /\ (needOneSign => SeedsOfOneSign(query, queryIndex)) => ProvidersDistinct(postings)

DistinctInList(queries, jobs, needOneSign) ==
    \A q \in DOMAIN queries :
        DistinctForQuery(PostingsOfQuery(jobs, q - 1), queries[q], q - 1, needOneSign)

\* C30 (as stated): the postings of one query have pairwise-distinct
\* providers, each board once, and pairwise-distinct companies, whatever the
\* seeds.
C30_FallbackDistinctAlways ==
    libCall.fn = "buildFallbackJobs"
        => DistinctInList(libCall.queries, libCall.result, FALSE)

\* C30 (amended): the postings of one query have pairwise-distinct companies;
\* their providers are pairwise distinct, each board once, when the five
\* seeds are all non-negative or all non-positive.
C30_FallbackDistinctOneSign ==
    libCall.fn = "buildFallbackJobs"
        => DistinctInList(libCall.queries, libCall.result, TRUE)

\* Seeds -4..0: the boards are used in reverse table order.
C30_Witness ==
    /\ libCall.fn = "buildFallbackJobs"
    /\ libCall.queries = <<JobQuery("SRE", "sre iyfyfhc")>>
    /\ FallbackSeed(libCall.queries[1], 0, 0) = -4
    /\ FallbackSeed(libCall.queries[1], 0, 4) = 0
    /\ [i \in 1..5 |-> libCall.result[i].source]
          = [i \in 1..5 |-> SEARCH_PROVIDERS[6 - i].name]

-----------------------------------------------------------------------------
(* Two requests in one process.  Each slot is one request being served by  *)
(* generateJobsWithGemini's handler or by the serverless analyze-resume     *)
(* handler; a request runs from its entry to an await, and from an await to *)
(* its answer, and the steps of the two slots interleave.  The slots share  *)
(* cachedModel, GEMINI_KEY and the clock.                                   *)

\* No request is in the slot: body and response are those of a job search,
\* request, text, error and analysis those of a resume analysis; aiCalls
\* counts the calls of generateContent the request has made.
IdleSlot ==
    [kind |-> "none", pc |-> "idle", body |-> NoBody, request |-> NoResumeRequest,
     text |-> Undefined, error |-> Undefined, ai |-> NoOutcome,
     response |-> NoResponse, analysis |-> NoAnalyzeResponse, aiCalls |-> 0]

JobsBody(method, k, items, location, remote) ==
    [method |-> method, queries |-> [k |-> k, items |-> items],
     location |-> location, remote |-> remote]

ConcurrentBodies ==
    {JobsBody("GET", "undefined", <<>>, Undefined, FALSE),
     JobsBody("POST", "array", <<>>, Undefined, FALSE),
     JobsBody("POST", "array", <<JobQuery("SRE", "sre")>>, Undefined, FALSE),
     JobsBody("POST", "array", <<JobQuery("Chef", "chef"), BlankQuery>>, Str("Berlin"), TRUE)}

\* generateContent rejects, answers prose, or answers a list of one posting
\* (without an id, and with one).
ConcurrentJobOutcomes ==
    {Rejected, Resolved(Str("no braces here"))}
        \cup {Resolved(Str(JSONstringify(Doc(Undefined, JobsArray(<<e>>))))) :
                e \in {JobEntry(Undefined, Str("SRE"), Str("Acme"), Str("Lisbon"),
                                Str("Run it."), Str("https://careers.acme.com/jobs/1"),
                                Str("Acme careers")),
                       JobEntry(Str("1"), Str("Designer"), Str(" Canva "), Undefined,
                                Undefined, Num("7"), Str(""))}}

ConcurrentResumeRequests ==
    {ResumeRequest("POST", "", PdfType, "U1JF"),
     ResumeRequest("POST", "cv.txt", "text/plain", "IA=="),
     ResumeRequest("POST", "cv.txt", "text/plain", "U1JF"),
     ResumeRequest("POST", "cv.png", "image/png", "U1JF")}

ConcurrentAnalysisOutcomes ==
    {[kind |-> "rejected", text |-> Str("fetch failed")],
     Resolved(Str("no braces here")),
     Resolved(Str(JSONstringify(
        AnalysisDoc(Str("Senior SRE with a platform focus."),
                    List(<<Str("sre"), Str("kubernetes")>>),
                    List(<<Str("Leads incident response")>>),
                    List(<<>>),
                    List(<<QueryItem("Senior SRE", "senior sre kubernetes")>>)))))}

\* getModel that stores a handle before it tests the key.
ModelAfterGetModelEager == "model"

\* cachedModel after a call of getModel: the handle is stored when the call
\* returns, and nothing is stored when it throws.
ModelAfterGetModel == IF getModelThrows THEN cachedModel ELSE "model"

\* A loop around generateContent that calls it again after a failure.
NextPcRetrying(failed) == IF failed THEN "awaitAI" ELSE "done"

\* Where a request goes when generateContent has settled: the catch of
\* generateJobsWithGemini returns the fallback list, the error of
\* runGeminiAnalysis reaches the handler's catch, and a result is answered.
NextPc(failed) == "done"

\* generateContent rejected, or its text is not the JSON asked for.
JobsCallFailed(outcome) == outcome.kind = "rejected" \/ ~safeJsonParse(outcome.text).ok

\* The request of a slot after generateContent settled with outcome.
Settled(slot, outcome, next, jobsAnswer, analysisAnswer) ==
    IF next = "done"
       THEN [slot EXCEPT !.pc = "done", !.ai = outcome, !.response = jobsAnswer,
                         !.analysis = analysisAnswer]
    ELSE [slot EXCEPT !.pc = next, !.aiCalls = IF @ < 2 THEN @ + 1 ELSE @]

\* The answer of the analyze-resume handler once runGeminiAnalysis returned
\* or threw.
AnalysisAnswer(handler, text, analysis) ==
    IF ~analysis.ok THEN AnalyzeFailure(handler, analysis.error)
    ELSE AnalyzeResponse(200, "", Undefined,
                         Str(slice(truncateContent(text), 0, SnippetLength)),
                         analysis.value)

\* The jobs/search handler from its entry to its first await.
SlotJobsRequest(i) ==
    /\ slots[i].pc = "idle"
    /\ \E b \in ConcurrentBodies :
        LET entered == [slots[i] EXCEPT !.kind = "jobs", !.body = b]
        IN IF b.method # "POST"
              THEN /\ slots' = [slots EXCEPT ![i] =
                                  [entered EXCEPT !.pc = "done",
                                     !.response = Response(405, <<>>, "Method Not Allowed")]]
                   /\ UNCHANGED cachedModel
           ELSE IF RejectsQueries(b)
              THEN /\ slots' = [slots EXCEPT ![i] =
                                  [entered EXCEPT !.pc = "done",
                                     !.response = Response(400, <<>>,
                                                    "Provide at least one job query.")]]
                   /\ UNCHANGED cachedModel
           ELSE IF getModelThrows
              THEN /\ slots' = [slots EXCEPT ![i] =
                                  [entered EXCEPT !.pc = "done",
                                     !.response = Response(500, <<>>,
                                                    "Failed to fetch job listings.")]]
                   /\ cachedModel' = ModelAfterGetModel
           ELSE /\ slots' = [slots EXCEPT ![i] =
                               [entered EXCEPT !.pc = "awaitAI", !.aiCalls = @ + 1]]
                /\ cachedModel' = ModelAfterGetModel
    /\ UNCHANGED <<geminiKey, now, pc, body, ai, response, parseIn, parseOut, seeds, picked,
                   calls, libCall, resume, engine>>

\* generateContent settles for the job search of slot i.
SlotJobsAnswer(i) ==
    /\ slots[i].kind = "jobs"
    /\ slots[i].pc = "awaitAI"
    /\ \E outcome \in ConcurrentJobOutcomes :
        slots' = [slots EXCEPT ![i] =
                    Settled(slots[i], outcome, NextPc(JobsCallFailed(outcome)),
                            Response(200,
                                     JobsAfterAwait(outcome, parsedQueries(slots[i].body),
                                                    slots[i].body.location,
                                                    slots[i].body.remote, now),
                                     ""),
                            NoAnalyzeResponse)]
    /\ UNCHANGED <<geminiKey, cachedModel, now, pc, body, ai, response, parseIn, parseOut,
                   seeds, picked, calls, libCall, resume, engine>>

\* The analyze-resume handler from its entry to await extractResumeText.
SlotResumeRequest(i) ==
    /\ slots[i].pc = "idle"
    /\ \E request \in ConcurrentResumeRequests :
        LET entered == [slots[i] EXCEPT !.kind = "resume", !.request = request]
        IN IF request.fileName = "" \/ request.fileType = "" \/ request.base64Data = ""
              THEN slots' = [slots EXCEPT ![i] =
                               [entered EXCEPT !.pc = "done",
                                  !.analysis = AnalyzeResponse(400, "Missing resume payload.",
                                                  Undefined, Undefined, Undefined)]]
           ELSE slots' = [slots EXCEPT ![i] = [entered EXCEPT !.pc = "awaitExtract"]]
    /\ UNCHANGED <<geminiKey, cachedModel, now, pc, body, ai, response, parseIn, parseOut,
                   seeds, picked, calls, libCall, resume, engine>>

\* extractResumeText settles for slot i; runGeminiAnalysis asks getModel and
\* calls generateContent.
SlotExtractionSettles(i) ==
    /\ slots[i].kind = "resume"
    /\ slots[i].pc = "awaitExtract"
    /\ \E extracted \in extractResumeText(slots[i].request.fileType,
                                          slots[i].request.base64Data) :
        IF ~extracted.ok
           THEN /\ slots' = [slots EXCEPT ![i] =
                               [@ EXCEPT !.pc = "done", !.error = Str(extracted.error),
                                  !.analysis = AnalyzeFailure("serverless", extracted.error)]]
                /\ UNCHANGED cachedModel
        ELSE IF IsBlank(extracted.text)
           THEN /\ slots' = [slots EXCEPT ![i] =
                               [@ EXCEPT !.pc = "done", !.text = Str(extracted.text),
                                  !.analysis = AnalyzeResponse(400,
                                                  "Unable to read text from the provided resume.",
                                                  Undefined, Undefined, Undefined)]]
                /\ UNCHANGED cachedModel
        ELSE IF getModelThrows
           THEN /\ slots' = [slots EXCEPT ![i] =
                               [@ EXCEPT !.pc = "done", !.text = Str(extracted.text),
                                  !.error = Str(NotConfigured),
                                  !.analysis = AnalyzeFailure("serverless", NotConfigured)]]
                /\ cachedModel' = ModelAfterGetModel
        ELSE /\ slots' = [slots EXCEPT ![i] =
                            [@ EXCEPT !.pc = "awaitAI", !.text = Str(extracted.text),
                               !.aiCalls = @ + 1]]
             /\ cachedModel' = ModelAfterGetModel
    /\ UNCHANGED <<geminiKey, now, pc, body, ai, response, parseIn, parseOut, seeds, picked,
                   calls, libCall, resume, engine>>

\* generateContent settles for the analysis of slot i.
SlotAnalysisAnswers(i) ==
    /\ slots[i].kind = "resume"
    /\ slots[i].pc = "awaitAI"
    /\ \E outcome \in ConcurrentAnalysisOutcomes :
        slots' = [slots EXCEPT ![i] =
                    Settled(slots[i], outcome, NextPc(~AnalysisAfterAwait(outcome).ok),
                            NoResponse,
                            AnalysisAnswer("serverless", slots[i].text.s,
                                           AnalysisAfterAwait(outcome)))]
    /\ UNCHANGED <<geminiKey, cachedModel, now, pc, body, ai, response, parseIn, parseOut,
                   seeds, picked, calls, libCall, resume, engine>>

\* The response of slot i is sent.
SlotFinish(i) ==
    /\ slots[i].pc = "done"
    /\ slots' = [slots EXCEPT ![i] = IdleSlot]
    /\ UNCHANGED <<geminiKey, cachedModel, now, pc, body, ai, response, parseIn, parseOut,
                   seeds, picked, calls, libCall, resume, engine>>

InitConcurrent ==
    /\ geminiKey \in {"", "key"}
    /\ Idle
    /\ libCall = NoCall
    /\ engine = NoEngine
    /\ resume = ResumeIdle("serverless")
    /\ parseIn = Undefined
    /\ parseOut = NoParse
    /\ seeds = <<0, 0>>
    /\ picked = <<-1, -1>>
    /\ calls = <<>>
    /\ slots = <<IdleSlot, IdleSlot>>

NextConcurrent ==
    \/ \E i \in 1..2 : SlotJobsRequest(i)
    \/ \E i \in 1..2 : SlotJobsAnswer(i)
    \/ \E i \in 1..2 : SlotResumeRequest(i)
    \/ \E i \in 1..2 : SlotExtractionSettles(i)
    \/ \E i \in 1..2 : SlotAnalysisAnswers(i)
    \/ \E i \in 1..2 : SlotFinish(i)
    \/ Tick

SpecConcurrent == InitConcurrent /\ [][NextConcurrent]_vars

-----------------------------------------------------------------------------
(* C23 *)

\* The request of the slot ended as the code ends it after a failed call of
\* generateContent: a job search with 200 and the fallback list of its
\* queries, an analysis with 500.
EndedAfterFailure(slot) ==
    IF slot.kind = "jobs"
       THEN /\ slot.response.status = 200
            /\ \E clock \in 0..MaxClock :
                  slot.response.jobs
                     = buildFallbackJobs(parsedQueries(slot.body), slot.body.location,
                                         slot.body.remote, clock)
    ELSE slot.analysis.status = 500

CallFailed(slot) ==
    IF slot.kind = "jobs" THEN JobsCallFailed(slot.ai) ELSE ~AnalysisAfterAwait(slot.ai).ok

OneShot(slot) ==
    /\ slot.aiCalls <= 1
    /\ slot.pc = "awaitAI" => slot.aiCalls = 1 /\ slot.ai = NoOutcome
    /\ slot.ai # NoOutcome
          => /\ slot.pc = "done"
             /\ slot.aiCalls = 1
             /\ CallFailed(slot) => EndedAfterFailure(slot)

\* C23: a request calls generateContent at most once; once the call has
\* settled the request is answered, and after a failed call it is answered
\* with the fallback list (job search) or an error (analysis), with no
\* second call.
C23_NoRetry == \A i \in 1..2 : OneShot(slots[i])

\* Both requests had their one call fail, and both have ended.
C23_Witness ==
    /\ slots[1].kind = "jobs" /\ slots[1].ai = Rejected /\ slots[1].pc = "done"
    /\ slots[1].aiCalls = 1 /\ slots[1].response.status = 200
    /\ slots[2].kind = "resume" /\ slots[2].ai = Resolved(Str("no braces here"))
    /\ slots[2].pc = "done" /\ slots[2].aiCalls = 1 /\ slots[2].analysis.status = 500

-----------------------------------------------------------------------------
(* C24 *)

\* The answer to a job search served alone in a process with the given key,
\* when generateContent settles with outcome at the given time.
AloneJobs(key, b, outcome, clock) ==
    IF b.method # "POST" THEN Response(405, <<>>, "Method Not Allowed")
    ELSE IF RejectsQueries(b) THEN Response(400, <<>>, "Provide at least one job query.")
    ELSE IF key = "" THEN Response(500, <<>>, "Failed to fetch job listings.")
    ELSE Response(200,
                  JobsAfterAwait(outcome, parsedQueries(b), b.location, b.remote, clock),
                  "")

\* The answer to a resume analysis served alone in a process with the given
\* key, for what the extractor and generateContent settle with.
AloneAnalysis(key, request, extracted, outcome) ==
    IF request.fileName = "" \/ request.fileType = "" \/ request.base64Data = ""
       THEN AnalyzeResponse(400, "Missing resume payload.", Undefined, Undefined, Undefined)
    ELSE IF ~extracted.ok THEN AnalyzeFailure("serverless", extracted.error)
    ELSE IF IsBlank(extracted.text)
       THEN AnalyzeResponse(400, "Unable to read text from the provided resume.",
                            Undefined, Undefined, Undefined)
    ELSE IF key = "" THEN AnalyzeFailure("serverless", NotConfigured)
    ELSE AnalysisAnswer("serverless", extracted.text, AnalysisAfterAwait(outcome))

\* The answer in the slot is the answer of the request served alone with the
\* same AI response, up to the time in its ids.
AnsweredAsAlone(slot, key) ==
    IF slot.kind = "jobs"
       THEN \E clock \in 0..MaxClock :
               slot.response = AloneJobs(key, slot.body, slot.ai, clock)
    ELSE \E extracted \in extractResumeText(slot.request.fileType, slot.request.base64Data) :
               slot.analysis = AloneAnalysis(key, slot.request, extracted, slot.ai)

\* The model handle is set only from null, and only with a key.
ModelStep ==
    cachedModel' # cachedModel
        => cachedModel = "null" /\ cachedModel' = "model" /\ geminiKey # ""

\* A step changes at most one request, and never the key.
OneRequestStep ==
    /\ geminiKey' = geminiKey
    /\ slots'[1] = slots[1] \/ slots'[2] = slots[2]

\* C24: in every interleaving of two requests each answer equals the answer
\* of that request served alone with the same AI response (up to the time
\* in its ids); a step changes one request only; cachedModel changes only
\* from null to a handle and is null for as long as no key is configured.
C24_RequestsIndependent ==
    /\ [](\A i \in 1..2 : slots[i].pc = "done" => AnsweredAsAlone(slots[i], geminiKey))
    /\ [](geminiKey = "" => cachedModel = "null")
    /\ [][ModelStep /\ OneRequestStep]_vars

\* The job search was answered from the AI's list at time 1 while the
\* analysis, which found the model already cached, waits for the AI.
C24_Witness ==
    /\ slots[1].kind = "jobs" /\ slots[1].pc = "done" /\ slots[1].response.status = 200
    /\ Len(slots[1].response.jobs) = 1 /\ slots[1].response.jobs[1].id = "gemini-1-0"
    /\ slots[2].kind = "resume" /\ slots[2].pc = "awaitAI"
    /\ cachedModel = "model"

====
